---- MODULE Spec2Model ----
(***************************************************************************)
(* Model of the LLM orchestrator (app/orchestrator.py), its sandbox client *)
(* (app/clients/sandbox_client.py) and the sandbox server with its         *)
(* execution manager (app/sandbox/main.py, app/sandbox/manager.py).        *)
(*                                                                         *)
(* Structured (JSON-like) values are tagged pairs <<tag, payload>>:        *)
(*   <<"str", s>>  <<"num", n>>  <<"none", 0>>                             *)
(*   <<"map", f>>   f a function from key strings to values (a dict)       *)
(*   <<"list", q>>  q a sequence of values                                 *)
(*   <<"raise", e>> is not a value: the call raised exception e.           *)
(***************************************************************************)
EXTENDS Integers, Sequences, FiniteSets, TLC

VARIABLES
    payload,      \* sanitizer harness: the structured value handed to _sanitize_payload
    sanitized,    \* sanitizer harness: what _sanitize_payload returned (NotRun before)
    input,        \* function harness: the arguments of the function under study
    output,       \* function harness: what it returned (NotRun before)
    cfg,          \* process configuration read from the environment at construction
    jobs,         \* one record per sandbox job (one call of SandboxClient.run_code)
    containers,   \* container id -> "running" | "exited" | "removed"
    uuids,        \* number of uuid4 names drawn so far
    sess          \* request id -> the state of one handle_user_request call

sanVars == <<payload, sanitized, input, output>>
sbVars == <<cfg, jobs, containers, uuids>>
orchVars == <<sess>>
vars == <<payload, sanitized, input, output, cfg, jobs, containers, uuids, sess>>

(***************************************************************************)
(* Bounds of the model.                                                    *)
(***************************************************************************)
MaxDepth == 2     \* nesting depth of the structured values fed to the sanitizer and the normalizer
NJobs == 2        \* sandbox jobs in flight in SpecSandbox

(***************************************************************************)
(* Structured values.                                                      *)
(***************************************************************************)
Str(s) == <<"str", s>>
Num(n) == <<"num", n>>
Map(f) == <<"map", f>>
List(q) == <<"list", q>>
NoneVal == <<"none", 0>>
Raise(e) == <<"raise", e>>
NotRun == <<"notrun", 0>>

IsMap(p) == p[1] = "map"
IsList(p) == p[1] = "list"
IsRaise(p) == p[1] = "raise"

(***************************************************************************)
(* Text. A Python str is a TLA+ string; the operators below are the str    *)
(* methods the code calls, computed character by character.                *)
(***************************************************************************)
CharAt(s, i) == SubSeq(s, i, i)
Whitespace == {" ", "\n", "\t", "\r"}
Digits == {"0", "1", "2", "3", "4", "5", "6", "7", "8", "9"}
\* str.lower of one character.
UpperToLower ==
    ("A" :> "a") @@ ("B" :> "b") @@ ("C" :> "c") @@ ("D" :> "d") @@ ("E" :> "e")
    @@ ("F" :> "f") @@ ("G" :> "g") @@ ("H" :> "h") @@ ("I" :> "i") @@ ("J" :> "j")
    @@ ("K" :> "k") @@ ("L" :> "l") @@ ("M" :> "m") @@ ("N" :> "n") @@ ("O" :> "o")
    @@ ("P" :> "p") @@ ("Q" :> "q") @@ ("R" :> "r") @@ ("S" :> "s") @@ ("T" :> "t")
    @@ ("U" :> "u") @@ ("V" :> "v") @@ ("W" :> "w") @@ ("X" :> "x") @@ ("Y" :> "y")
    @@ ("Z" :> "z")
LowerChar(c) == IF c \in DOMAIN UpperToLower THEN UpperToLower[c] ELSE c

\* str.lower.
RECURSIVE str_lower(_)
str_lower(s) ==
    IF Len(s) <= 1 THEN LowerChar(s)
    ELSE str_lower(SubSeq(s, 1, Len(s) \div 2)) \o str_lower(SubSeq(s, Len(s) \div 2 + 1, Len(s)))

\* str.lstrip(chars), str.rstrip(chars), str.strip(chars), str.strip().
RECURSIVE LStrip(_, _)
LStrip(s, C) == IF s # "" /\ Head(s) \in C THEN LStrip(Tail(s), C) ELSE s
RECURSIVE RStrip(_, _)
RStrip(s, C) ==
    IF s # "" /\ CharAt(s, Len(s)) \in C THEN RStrip(SubSeq(s, 1, Len(s) - 1), C) ELSE s
StripChars(s, C) == RStrip(LStrip(s, C), C)
Strip(s) == StripChars(s, Whitespace)

StartsWith(s, p) == Len(p) <= Len(s) /\ SubSeq(s, 1, Len(p)) = p
EndsWith(s, p) == Len(p) <= Len(s) /\ SubSeq(s, Len(s) - Len(p) + 1, Len(s)) = p
From(s, i) == SubSeq(s, i, Len(s))

\* str.find(p) + 1: the position of the first occurrence of p in s, 0 when there is none.
Find(s, p) ==
    LET hits == {i \in 1..(Len(s) - Len(p) + 1) : SubSeq(s, i, i + Len(p) - 1) = p}
    IN IF hits = {} THEN 0 ELSE CHOOSE i \in hits : \A k \in hits : i <= k
Contains(s, p) == Find(s, p) # 0

\* str.split(sep): sep is not empty.
RECURSIVE Split(_, _)
Split(s, sep) ==
    LET At(at) == IF at = 0 THEN <<s>>
                  ELSE <<SubSeq(s, 1, at - 1)>> \o Split(From(s, at + Len(sep)), sep)
    IN At(Find(s, sep))

\* str.split(sep, 1) of a string that contains sep.
Split1(s, sep) ==
    LET At(at) == <<SubSeq(s, 1, at - 1), From(s, at + Len(sep))>> IN At(Find(s, sep))

\* str.isdigit over ASCII, and int() of such a string.
IsDigit(s) == s # "" /\ \A i \in 1..Len(s) : CharAt(s, i) \in Digits
DigitValue(c) == CHOOSE n \in 0..9 : CharAt("0123456789", n + 1) = c
RECURSIVE IntOf(_)
IntOf(s) == IF s = "" THEN 0 ELSE IntOf(SubSeq(s, 1, Len(s) - 1)) * 10 + DigitValue(CharAt(s, Len(s)))

\* float(s) succeeds: whitespace around, an optional sign, then inf, infinity or nan,
\* or digits with at most one point and at least one digit and an optional exponent.
\* (The underscores float() allows between digits are not modelled.)
IsDecimal(u) ==
    /\ \A i \in 1..Len(u) : CharAt(u, i) \in Digits \cup {"."}
    /\ Cardinality({i \in 1..Len(u) : CharAt(u, i) = "."}) <= 1
    /\ \E i \in 1..Len(u) : CharAt(u, i) \in Digits
IsExponent(x) == IsDigit(IF x # "" /\ Head(x) \in {"+", "-"} THEN Tail(x) ELSE x)
IsFloatText(s) ==
    LET Unsigned(t) == IF t # "" /\ Head(t) \in {"+", "-"} THEN Tail(t) ELSE t
        Parts(p) == IsDecimal(p[1]) /\ IsExponent(p[2])
        Test(u) == \/ u \in {"inf", "infinity", "nan"}
                   \/ IF Contains(u, "e") THEN Parts(Split1(u, "e")) ELSE IsDecimal(u)
    IN Test(Unsigned(str_lower(Strip(s))))

SENSITIVE_KEYS == {"password", "card_number", "pass"}

\* A bug a sanitizer could have: keys filtered, nested values copied as they are.
RECURSIVE sanitize_payload(_)
sanitize_payload_shallow(p) ==
    IF IsMap(p)
    THEN Map([k \in (DOMAIN p[2]) \ SENSITIVE_KEYS |-> p[2][k]])
    ELSE IF IsList(p)
    THEN List([i \in DOMAIN p[2] |-> sanitize_payload(p[2][i])])
    ELSE p

sanitize_payload(p) ==
    IF IsMap(p)
    THEN Map([k \in (DOMAIN p[2]) \ SENSITIVE_KEYS |-> sanitize_payload(p[2][k])])
    ELSE IF IsList(p)
    THEN List([i \in DOMAIN p[2] |-> sanitize_payload(p[2][i])])
    ELSE p

\* Every mapping key occurring in p, at any nesting depth.
RECURSIVE KeysOf(_)
KeysOf(p) ==
    IF IsMap(p)
    THEN (DOMAIN p[2]) \cup UNION {KeysOf(p[2][k]) : k \in DOMAIN p[2]}
    ELSE IF IsList(p)
    THEN UNION {KeysOf(p[2][i]) : i \in DOMAIN p[2]}
    ELSE {}

\* The nesting depths at which p has a sensitive key (a top-level key is at depth 1).
RECURSIVE SensitiveDepths(_)
SensitiveDepths(p) ==
    IF IsMap(p)
    THEN (IF (DOMAIN p[2]) \cap SENSITIVE_KEYS # {} THEN {1} ELSE {})
         \cup UNION {{d + 1 : d \in SensitiveDepths(p[2][k])} : k \in DOMAIN p[2]}
    ELSE IF IsList(p)
    THEN UNION {{d + 1 : d \in SensitiveDepths(p[2][i])} : i \in DOMAIN p[2]}
    ELSE {}

(***************************************************************************)
(* The bounded set of structured values of the sanitizer harness: atoms,   *)
(* mappings of one key or of two keys (a nested value beside an atom) and  *)
(* sequences of up to two items, nested up to depth d.                     *)
(***************************************************************************)
PayloadKeys == SENSITIVE_KEYS \cup {"name"}
Atoms == {Str("alice"), Num(7)}
Maps1(V) == {Map([x \in {a} |-> v]) : a \in PayloadKeys, v \in V}
Maps2(V) ==
    {Map([x \in {q[1], q[2]} |-> IF x = q[1] THEN q[3] ELSE q[4]]) :
        q \in {r \in PayloadKeys \X PayloadKeys \X V \X Atoms : r[1] # r[2]}}
Lists(V) ==
    {List(<<>>)} \cup {List(<<v>>) : v \in V} \cup {List(<<v, w>>) : v \in V, w \in Atoms}
RECURSIVE Payloads(_)
Payloads(d) ==
    IF d = 0
    THEN Atoms
    ELSE LET V == Payloads(d - 1)
         IN Atoms \cup {Map(<<>>)} \cup Maps1(V) \cup Maps2(V) \cup Lists(V)

(***************************************************************************)
(* Sanitizer harness: the input is drawn in InitSanitize, ApplySanitize    *)
(* applies _sanitize_payload to it.                                        *)
(***************************************************************************)
ApplySanitize ==
    /\ sanitized = NotRun
    /\ sanitized' = sanitize_payload(payload)
    /\ UNCHANGED <<payload, input, output, sbVars, orchVars>>

(***************************************************************************)
(* Configuration. SandboxClient.__init__ reads SANDBOX_EXEC_CONTAINER,     *)
(* the base url, SANDBOX_REMOTE_HOST and SANDBOX_REMOTE_KEY_PATH; the      *)
(* SandboxManager of the sandbox server reads SANDBOX_REMOTE_HOST and      *)
(* SANDBOX_REMOTE_KEY_PATH of its own process, and paramiko may be absent. *)
(* The fields a deployment never reads are kept at one value.              *)
(***************************************************************************)
Configs ==
    {c \in [exec_container : BOOLEAN, base_url : BOOLEAN, ssh_host : BOOLEAN,
            ssh_key_path : BOOLEAN, remote_host : BOOLEAN,
            remote_key_path : BOOLEAN, paramiko : BOOLEAN] :
        /\ c.exec_container => (c.base_url /\ ~c.remote_host)
        /\ ~c.exec_container => ~c.ssh_host
        /\ ~c.ssh_host => ~c.ssh_key_path
        /\ ~c.base_url => ~c.remote_host
        /\ ~c.remote_host => (~c.remote_key_path /\ c.paramiko)
        /\ ~c.paramiko => c.remote_key_path}

(***************************************************************************)
(* Containers. A container id is <<host, n>>: host "local" is the docker   *)
(* daemon of the process, host "remote" the daemon reached over SSH;       *)
(* n = 0 is the long-lived container named by SANDBOX_EXEC_CONTAINER,      *)
(* n > 0 the container named sandbox_<n-th uuid4>. uuid4 names are taken   *)
(* to be fresh.                                                            *)
(***************************************************************************)
NoContainer == <<"none", 0>>
\* The text handed to run_code: not built yet.
NoCode == [built |-> FALSE, payload |-> NoneVal, body |-> NoneVal, postlude |-> FALSE]
ExecContainer(host) == <<host, 0>>
InitContainers == (ExecContainer("local") :> "running") @@ (ExecContainer("remote") :> "running")

(***************************************************************************)
(* Outcomes, as the code builds them.                                      *)
(***************************************************************************)
LocalResult(status) == Map(("exit_code" :> Num(status)) @@ ("stdout" :> Str("logs")))
MgrError == Map(("exit_code" :> Num(1)) @@ ("error" :> Str("exc")))
RemoteFail(status) == Map(("exit_code" :> Num(status)) @@ ("error" :> Str("err")))
RemoteResult ==
    Map(("exit_code" :> Num(0)) @@ ("stdout" :> Str("out")) @@ ("stderr" :> Str("")))
ExecResult(status) == Map(("exit_code" :> Num(status)) @@ ("stdout" :> Str("out")))
SshResult(status) ==
    IF status = 0
    THEN Map(("exit_code" :> Num(0)) @@ ("stdout" :> Str("out")))
    ELSE Map(("exit_code" :> Num(status)) @@ ("stdout" :> Str("")) @@ ("stderr" :> Str("err")))
ExitCode(o) == o[2]["exit_code"][2]
IsStructured(o) == IsMap(o) /\ "exit_code" \in DOMAIN o[2]

\* What a launch asks of the container runtime for one execution: a container of
\* its own, no network, a memory ceiling, a CPU ceiling, and a bound on the wait.
NoLimits ==
    [fresh |-> FALSE, network_none |-> FALSE, mem_limit |-> FALSE, cpu_limit |-> FALSE,
     wait_timeout |-> FALSE]
\* containers.run(network_mode="none", mem_limit="256m", nano_cpus=500_000_000) and
\* container.wait(timeout=timeout).
RunLocalLimits ==
    [fresh |-> TRUE, network_none |-> TRUE, mem_limit |-> TRUE, cpu_limit |-> TRUE,
     wait_timeout |-> TRUE]
\* docker run --rm --network none --memory 256m --cpus 0.5 and
\* exec_command(docker_cmd, timeout=timeout).
RunRemoteLimits ==
    [fresh |-> TRUE, network_none |-> TRUE, mem_limit |-> TRUE, cpu_limit |-> TRUE,
     wait_timeout |-> TRUE]
\* container.exec_run(command, workdir=...) in the container that is already there.
ExecRunLimits == NoLimits
\* docker exec in the container that is already there, sent with
\* exec_command(command, timeout=self.timeout_seconds).
SshExecLimits == [NoLimits EXCEPT !.wait_timeout = TRUE]

IdleJob ==
    [pc |-> "idle", executed |-> FALSE, limits |-> NoLimits, path |-> "none", cname |-> NoContainer, handle |-> FALSE,
     created |-> FALSE, code |-> NoCode, status |-> 0, mgr_outcome |-> NotRun, outcome |-> NotRun,
     removals |-> 0, remove_failed |-> FALSE, excepted |-> FALSE,
     local_tried |-> FALSE, primary_down |-> FALSE, remote_failed |-> FALSE,
     failure |-> "none"]

Job(j) == jobs[j]
SetJob(j, r) == jobs' = [jobs EXCEPT ![j] = r]

\* A request reaches SandboxClient.run_code.
Submit(j) ==
    /\ Job(j).pc = "idle"
    /\ SetJob(j, [Job(j) EXCEPT !.pc = "run_code"])
    /\ UNCHANGED <<sanVars, orchVars, cfg, containers, uuids>>

\* SandboxClient.run_code: the dispatch on the configuration, and the POST.
ClientRunCode(j) ==
    /\ Job(j).pc = "run_code"
    /\ IF cfg.exec_container
       THEN SetJob(j, [Job(j) EXCEPT !.pc = "via_exec"])
       ELSE IF ~cfg.base_url
       THEN SetJob(j, [Job(j) EXCEPT !.pc = "done", !.outcome = Raise("RuntimeError")])
       ELSE \E up \in BOOLEAN :
               IF up
               THEN SetJob(j, [Job(j) EXCEPT !.pc = "server_run"])
               ELSE SetJob(j, [Job(j) EXCEPT !.pc = "done", !.failure = "transport",
                                             !.outcome = Raise("URLError")])
    /\ UNCHANGED <<sanVars, orchVars, cfg, containers, uuids>>

\* The fallback decision of _run_via_exec.
FallbackToSsh(primary_reachable, ssh_host) == ~primary_reachable /\ ssh_host

\* SandboxClient._run_via_exec up to the exec_run call.
RunViaExec(j) ==
    /\ Job(j).pc = "via_exec"
    /\ \E reachable \in BOOLEAN :
          IF reachable
          THEN SetJob(j, [Job(j) EXCEPT !.pc = "exec_running", !.path = "exec",
                                        !.executed = TRUE, !.limits = ExecRunLimits,
                                        !.local_tried = TRUE,
                                        !.cname = ExecContainer("local")])
          ELSE IF FallbackToSsh(reachable, cfg.ssh_host)
          THEN SetJob(j, [Job(j) EXCEPT !.pc = "via_ssh", !.local_tried = TRUE,
                                        !.primary_down = TRUE])
          ELSE SetJob(j, [Job(j) EXCEPT !.pc = "done", !.local_tried = TRUE,
                                        !.primary_down = TRUE, !.failure = "unreachable",
                                        !.outcome = Raise("RuntimeError")])
    /\ UNCHANGED <<sanVars, orchVars, cfg, containers, uuids>>

\* container.exec_run returns (or raises) and _run_via_exec returns.
ExecFinish(j) ==
    /\ Job(j).pc = "exec_running"
    /\ \E r \in {"zero", "nonzero", "api_error"} :
          SetJob(j, [Job(j) EXCEPT
              !.pc = "done",
              !.failure = IF r = "zero" THEN "none"
                          ELSE IF r = "nonzero" THEN "nonzero" ELSE "runtime_error",
              !.outcome = IF r = "zero" THEN ExecResult(0)
                          ELSE IF r = "nonzero" THEN ExecResult(1) ELSE Raise("APIError")])
    /\ UNCHANGED <<sanVars, orchVars, cfg, containers, uuids>>

\* SandboxClient._run_via_ssh_exec up to exec_command.
RunViaSshExec(j) ==
    /\ Job(j).pc = "via_ssh"
    /\ IF ~cfg.ssh_key_path
       THEN SetJob(j, [Job(j) EXCEPT !.pc = "done", !.remote_failed = TRUE,
                                     !.failure = "remote",
                                     !.outcome = Raise("RuntimeError")])
       ELSE \E r \in {"connected", "key_error", "refused"} :
               IF r = "connected"
               THEN SetJob(j, [Job(j) EXCEPT !.pc = "ssh_running", !.path = "ssh",
                                             !.executed = TRUE, !.limits = SshExecLimits,
                                             !.cname = ExecContainer("remote")])
               ELSE SetJob(j, [Job(j) EXCEPT !.pc = "done", !.remote_failed = TRUE,
                                             !.failure = "remote",
                                             !.outcome = Raise("SSHException")])
    /\ UNCHANGED <<sanVars, orchVars, cfg, containers, uuids>>

\* The remote command ends (or the channel times out) and _run_via_ssh_exec returns.
SshFinish(j) ==
    /\ Job(j).pc = "ssh_running"
    /\ \E r \in {"zero", "nonzero", "timeout"} :
          SetJob(j, [Job(j) EXCEPT
              !.pc = "done",
              !.remote_failed = (r # "zero"),
              !.failure = IF r = "zero" THEN "none" ELSE r,
              !.outcome = IF r = "zero" THEN SshResult(0)
                          ELSE IF r = "nonzero" THEN SshResult(1) ELSE Raise("timeout")])
    /\ UNCHANGED <<sanVars, orchVars, cfg, containers, uuids>>

(***************************************************************************)
(* The sandbox server: run() of app/sandbox/main.py calls                  *)
(* SandboxManager.run_code.                                                *)
(***************************************************************************)
\* Faults: guards of the teardown a manager could get wrong.
TeardownLocalAlways(handle) == TRUE
TeardownLocalNever(handle) == FALSE

\* _run_local's finally: the removal is called when the launch returned a container.
TeardownLocal(handle) == handle

\* SandboxManager.run_code: which path a job takes.
ManagerPath(remote_host) == IF remote_host THEN "run_remote" ELSE "run_local"

ServerRun(j) ==
    /\ Job(j).pc = "server_run"
    /\ SetJob(j, [Job(j) EXCEPT !.pc = ManagerPath(cfg.remote_host)])
    /\ UNCHANGED <<sanVars, orchVars, cfg, containers, uuids>>

\* _run_local: the name is drawn and containers.run returns a container or raises.
RunLocalLaunch(j) ==
    /\ Job(j).pc = "run_local"
    /\ uuids' = uuids + 1
    /\ \E launched \in BOOLEAN :
          IF launched
          THEN /\ containers' = containers @@ (<<"local", uuids + 1>> :> "running")
               /\ SetJob(j, [Job(j) EXCEPT !.pc = "local_wait", !.path = "local",
                                           !.executed = TRUE, !.limits = RunLocalLimits,
                                           !.local_tried = TRUE, !.handle = TRUE,
                                           !.created = TRUE,
                                           !.cname = <<"local", uuids + 1>>])
          ELSE /\ containers' = containers
               /\ SetJob(j, [Job(j) EXCEPT !.pc = "local_finally", !.path = "local",
                                           !.local_tried = TRUE, !.primary_down = TRUE,
                                           !.failure = "unreachable", !.excepted = TRUE,
                                           !.mgr_outcome = MgrError])
    /\ UNCHANGED <<sanVars, orchVars, cfg>>

\* container.wait(timeout): the exit status, or an exception on timeout.
RunLocalWait(j) ==
    /\ Job(j).pc = "local_wait"
    /\ \E r \in {"zero", "nonzero", "timeout"} :
          IF r = "timeout"
          THEN /\ containers' = containers
               /\ SetJob(j, [Job(j) EXCEPT !.pc = "local_finally", !.failure = "timeout",
                                           !.excepted = TRUE, !.mgr_outcome = MgrError])
          ELSE /\ containers' = [containers EXCEPT ![Job(j).cname] = "exited"]
               /\ SetJob(j, [Job(j) EXCEPT !.pc = "local_logs",
                                           !.status = IF r = "zero" THEN 0 ELSE 1])
    /\ UNCHANGED <<sanVars, orchVars, cfg, uuids>>

\* container.logs(): raises when the container is gone already, and may raise anyway.
RunLocalLogs(j) ==
    /\ Job(j).pc = "local_logs"
    /\ \E ok \in BOOLEAN :
          IF ok /\ containers[Job(j).cname] # "removed"
          THEN SetJob(j, [Job(j) EXCEPT
                   !.pc = "local_finally",
                   !.failure = IF Job(j).status = 0 THEN "none" ELSE "nonzero",
                   !.mgr_outcome = LocalResult(Job(j).status)])
          ELSE SetJob(j, [Job(j) EXCEPT !.pc = "local_finally",
                                        !.failure = "runtime_error", !.excepted = TRUE,
                                        !.mgr_outcome = MgrError])
    /\ UNCHANGED <<sanVars, orchVars, cfg, containers, uuids>>

\* _run_local's finally: container.remove(force=True), its exceptions swallowed.
RunLocalFinally(j) ==
    /\ Job(j).pc = "local_finally"
    /\ IF TeardownLocal(Job(j).handle)
       THEN \E ok \in BOOLEAN :
               IF ok /\ Job(j).created /\ containers[Job(j).cname] # "removed"
               THEN /\ containers' = [containers EXCEPT ![Job(j).cname] = "removed"]
                    /\ SetJob(j, [Job(j) EXCEPT !.pc = "server_return",
                                                !.removals = @ + 1])
               ELSE /\ containers' = containers
                    /\ SetJob(j, [Job(j) EXCEPT !.pc = "server_return",
                                                !.removals = @ + 1,
                                                !.remove_failed = TRUE])
       ELSE /\ containers' = containers
            /\ SetJob(j, [Job(j) EXCEPT !.pc = "server_return"])
    /\ UNCHANGED <<sanVars, orchVars, cfg, uuids>>

\* The docker daemon removes an exited container that was run with remove=True.
DaemonAutoRemove(c) ==
    /\ c \in DOMAIN containers
    /\ c[1] = "local" /\ c[2] > 0
    /\ containers[c] = "exited"
    /\ containers' = [containers EXCEPT ![c] = "removed"]
    /\ UNCHANGED <<sanVars, orchVars, cfg, jobs, uuids>>

\* _run_remote: the early returns, and the name drawn for the container.
RunRemote(j) ==
    /\ Job(j).pc = "run_remote"
    /\ IF ~cfg.paramiko \/ ~cfg.remote_key_path
       THEN /\ uuids' = uuids
            /\ SetJob(j, [Job(j) EXCEPT !.pc = "server_return", !.path = "remote",
                                        !.remote_failed = TRUE, !.failure = "remote",
                                        !.mgr_outcome = MgrError])
       ELSE /\ uuids' = uuids + 1
            /\ SetJob(j, [Job(j) EXCEPT !.pc = "remote_connect", !.path = "remote",
                                        !.cname = <<"remote", uuids + 1>>])
    /\ UNCHANGED <<sanVars, orchVars, cfg, containers>>

\* client.connect and exec_command of the docker run --rm command.
RemoteConnect(j) ==
    /\ Job(j).pc = "remote_connect"
    /\ \E started \in BOOLEAN :
          IF started
          THEN /\ containers' = containers @@ (Job(j).cname :> "running")
               /\ SetJob(j, [Job(j) EXCEPT !.pc = "remote_running", !.created = TRUE,
                                           !.executed = TRUE, !.limits = RunRemoteLimits])
          ELSE /\ containers' = containers
               /\ SetJob(j, [Job(j) EXCEPT !.pc = "remote_except", !.excepted = TRUE,
                                           !.remote_failed = TRUE, !.failure = "remote"])
    /\ UNCHANGED <<sanVars, orchVars, cfg, uuids>>

\* recv_exit_status and the reads: docker run --rm has ended and removed the
\* container, or the channel raised (timeout) with the container still there.
RemoteFinish(j) ==
    /\ Job(j).pc = "remote_running"
    /\ \E r \in {"zero", "nonzero", "timeout"} :
          IF r = "timeout"
          THEN /\ containers' = containers
               /\ SetJob(j, [Job(j) EXCEPT !.pc = "remote_except", !.excepted = TRUE,
                                           !.remote_failed = TRUE, !.failure = "timeout"])
          ELSE /\ containers' = [containers EXCEPT ![Job(j).cname] = "removed"]
               /\ SetJob(j, [Job(j) EXCEPT
                      !.pc = "server_return",
                      !.remote_failed = (r = "nonzero"),
                      !.failure = IF r = "zero" THEN "none" ELSE "nonzero",
                      !.mgr_outcome = IF r = "zero" THEN RemoteResult ELSE RemoteFail(1)])
    /\ UNCHANGED <<sanVars, orchVars, cfg, uuids>>

\* _run_remote's except: docker rm -f is sent (not awaited), its exceptions swallowed.
RemoteExcept(j) ==
    /\ Job(j).pc = "remote_except"
    /\ \E r \in {"raised", "sent_and_run", "sent_and_lost"} :
          /\ ~Job(j).created => r = "raised"
          /\ containers' = IF r = "sent_and_run"
                           THEN [containers EXCEPT ![Job(j).cname] = "removed"]
                           ELSE containers
          /\ SetJob(j, [Job(j) EXCEPT !.pc = "server_return", !.removals = @ + 1,
                                      !.remove_failed = (r = "raised"),
                                      !.mgr_outcome = MgrError])
    /\ UNCHANGED <<sanVars, orchVars, cfg, uuids>>

\* What the client's urlopen yields for the manager's outcome: run() raises
\* HTTPException(400) unless exit_code is 0 or None, and urlopen then raises.
HttpReply(o) == IF ExitCode(o) # 0 THEN Raise("HTTPError") ELSE o

ServerReturn(j) ==
    /\ Job(j).pc = "server_return"
    /\ SetJob(j, [Job(j) EXCEPT !.pc = "done", !.outcome = HttpReply(Job(j).mgr_outcome)])
    /\ UNCHANGED <<sanVars, orchVars, cfg, containers, uuids>>

(***************************************************************************)
(* The orchestrator: Orchestrator.handle_user_request.                     *)
(*                                                                         *)
(* A text is modelled by the set of the strings it is made of; a regular   *)
(* expression searched in it finds a match when one of those strings,      *)
(* with the case folded under re.IGNORECASE, is one of its alternatives.   *)
(***************************************************************************)
MaxCalls == 2     \* tool calls in one response of the first completion

BLOCKED_CODE_PATTERN ==
    {"import os", "import sys", "subprocess", "socket", "requests", "shutil",
     "rm -rf", "os.system", "__import__", "open(", "eval(", "exec("}

\* The case folding of re.IGNORECASE.
Lower(t) == str_lower(t)

\* _BLOCKED_CODE_PATTERN.search(text), compiled with re.IGNORECASE.
BlockedPatternSearch(text) ==
    \E t \in text :
        /\ Len(t) \in {Len(b) : b \in BLOCKED_CODE_PATTERN}
        /\ Lower(t) \in BLOCKED_CODE_PATTERN

\* The strings of json.dumps(p): the keys and the string values.
RECURSIVE ValueStrings(_)
ValueStrings(p) ==
    IF IsMap(p)
    THEN (DOMAIN p[2]) \cup UNION {ValueStrings(p[2][k]) : k \in DOMAIN p[2]}
    ELSE IF IsList(p)
    THEN UNION {ValueStrings(p[2][i]) : i \in DOMAIN p[2]}
    ELSE IF p[1] = "str" THEN {p[2]} ELSE {}

PRELUDE ==
    {"import json", "import matplotlib", "matplotlib.use('Agg')",
     "import matplotlib.pyplot as plt", "inputs = json.loads("}
POSTLUDE ==
    {"try:", "import io", "import base64", "import matplotlib.pyplot as plt",
     "plt.get_fignums()", "plt.savefig(", "print(IMAGE_START:", "except Exception as e:",
     "print(GRAPH_ERROR:"}
ECHO == {"print(json.dumps(inputs, ensure_ascii=False))"}

\* dict.get(key): None when the key is absent.
Get(args, key) == IF key \in DOMAIN args[2] THEN args[2][key] ELSE NoneVal

\* "IMAGE_BASE64" in code or "IMAGE_START" in code.
HasImageMarker(code) == code[2] \in {"print('IMAGE_BASE64:QUJD')", "print('IMAGE_START:QUJD:IMAGE_END')"}

\* if code: a string that is not empty.
Truthy(code) == code[1] = "str" /\ code[2] # ""

\* _build_sandbox_code.
build_sandbox_code(code, task, inputs, results) ==
    [built |-> TRUE,
     payload |-> IF inputs # NoneVal
                 THEN inputs
                 ELSE Map(("results" :> List(results)) @@ ("task" :> task)),
     body |-> IF Truthy(code) THEN code ELSE NoneVal,
     postlude |-> Truthy(code) /\ ~HasImageMarker(code)]

\* The text of a built code: prelude, encoded inputs, code or echo, postlude.
CodeText(c) ==
    PRELUDE \cup ValueStrings(c.payload)
        \cup (IF c.body # NoneVal THEN {c.body[2]} ELSE ECHO)
        \cup (IF c.postlude THEN POSTLUDE ELSE {})

\* A fault: a validator that matches case-sensitively.
validate_code_case_sensitive(c) == CodeText(c) \cap BLOCKED_CODE_PATTERN # {}

\* _validate_code: TRUE when it raises ValueError.
validate_code(c) == BlockedPatternSearch(CodeText(c))

(***************************************************************************)
(* json.loads, by recursive descent over the characters. A parse yields    *)
(* <<"ok", value, rest>> or <<"err">>. Numbers are integers (Num) or       *)
(* decimals (Float, kept as their text); of the escapes of a string the    *)
(* model has \" \\ \/ and \n. A mapping keeps the last of equal keys.      *)
(***************************************************************************)
Float(t) == <<"float", t>>
Bool(b) == <<"bool", b>>
IsStr(p) == p[1] = "str"
Err == <<"err">>
Ok(v, rest) == <<"ok", v, rest>>
IsOk(r) == r[1] = "ok"
SkipWs(s) == LStrip(s, Whitespace)

\* The characters of a string literal after its opening quote.
RECURSIVE ScanString(_, _)
ScanString(s, acc) ==
    IF s = "" THEN Err
    ELSE IF Head(s) = "\"" THEN Ok(Str(acc), Tail(s))
    ELSE IF Head(s) = "\n" THEN Err
    ELSE IF Head(s) # "\\" THEN ScanString(Tail(s), acc \o Head(s))
    ELSE IF Len(s) < 2 THEN Err
    ELSE IF CharAt(s, 2) \in {"\"", "\\", "/"} THEN ScanString(From(s, 3), acc \o CharAt(s, 2))
    ELSE IF CharAt(s, 2) = "n" THEN ScanString(From(s, 3), acc \o "\n")
    ELSE Err

\* The longest prefix of s made of digits.
RECURSIVE DigitsPrefix(_)
DigitsPrefix(s) ==
    IF s # "" /\ Head(s) \in Digits THEN Head(s) \o DigitsPrefix(Tail(s)) ELSE ""

ScanNumber(s) ==
    LET Fraction(sign, int, after, frac) ==
            IF frac = "" THEN Err
            ELSE Ok(Float(sign \o int \o "." \o frac), From(after, Len(frac) + 2))
        Number(neg, int, after) ==
            IF int = "" \/ (Len(int) > 1 /\ Head(int) = "0") THEN Err
            ELSE IF after # "" /\ Head(after) = "."
            THEN Fraction(IF neg THEN "-" ELSE "", int, after, DigitsPrefix(Tail(after)))
            ELSE Ok(Num(IF neg THEN 0 - IntOf(int) ELSE IntOf(int)), after)
        Integer(neg, u, int) == Number(neg, int, From(u, Len(int) + 1))
        Unsigned(neg, u) == Integer(neg, u, DigitsPrefix(u))
        Signed(neg) == Unsigned(neg, IF neg THEN Tail(s) ELSE s)
    IN Signed(s # "" /\ Head(s) = "-")

RECURSIVE ScanValue(_)
RECURSIVE ScanElements(_, _)
RECURSIVE ScanMembers(_, _)

\* The items of an array after "[" or after a comma; acc holds the items read.
ScanElements(s, acc) ==
    LET Close(t, items) ==
            IF t = "" THEN Err
            ELSE IF Head(t) = "," THEN ScanElements(Tail(t), items)
            ELSE IF Head(t) = "]" THEN Ok(List(items), Tail(t))
            ELSE Err
        Item(v) == IF ~IsOk(v) THEN Err ELSE Close(SkipWs(v[3]), Append(acc, v[2]))
    IN Item(ScanValue(SkipWs(s)))

\* The members of an object after "{" or after a comma; acc holds the members read.
ScanMembers(s, acc) ==
    LET Close(w, m) ==
            IF w = "" THEN Err
            ELSE IF Head(w) = "," THEN ScanMembers(Tail(w), m)
            ELSE IF Head(w) = "}" THEN Ok(Map(m), Tail(w))
            ELSE Err
        Value(k, v) ==
            IF ~IsOk(v) THEN Err ELSE Close(SkipWs(v[3]), (k[2][2] :> v[2]) @@ acc)
        Colon(k, u) ==
            IF u = "" \/ Head(u) # ":" THEN Err ELSE Value(k, ScanValue(SkipWs(Tail(u))))
        Key(k) == IF ~IsOk(k) THEN Err ELSE Colon(k, SkipWs(k[3]))
        Member(t) ==
            IF t = "" \/ Head(t) # "\"" THEN Err ELSE Key(ScanString(Tail(t), ""))
    IN Member(SkipWs(s))

\* One JSON value at the start of s (no leading whitespace).
ScanValue(s) ==
    LET Object(t) ==
            IF t # "" /\ Head(t) = "}" THEN Ok(Map(<<>>), Tail(t))
            ELSE ScanMembers(Tail(s), <<>>)
        Array(t) ==
            IF t # "" /\ Head(t) = "]" THEN Ok(List(<<>>), Tail(t))
            ELSE ScanElements(Tail(s), <<>>)
    IN
    IF s = "" THEN Err
    ELSE IF Head(s) = "{" THEN Object(SkipWs(Tail(s)))
    ELSE IF Head(s) = "[" THEN Array(SkipWs(Tail(s)))
    ELSE IF Head(s) = "\"" THEN ScanString(Tail(s), "")
    ELSE IF StartsWith(s, "true") THEN Ok(Bool(TRUE), From(s, 5))
    ELSE IF StartsWith(s, "false") THEN Ok(Bool(FALSE), From(s, 6))
    ELSE IF StartsWith(s, "null") THEN Ok(NoneVal, From(s, 5))
    ELSE ScanNumber(s)

\* json.loads(s): the value, or Raise("JSONDecodeError").
json_loads(s) ==
    LET Whole(r) == IF IsOk(r) /\ SkipWs(r[3]) = "" THEN r[2] ELSE Raise("JSONDecodeError")
    IN Whole(ScanValue(SkipWs(s)))

\* json.JSONDecoder().raw_decode(s): <<"ok", value, rest>> or <<"err">>; unlike
\* json.loads it accepts no leading whitespace and leaves what follows the value.
raw_decode(s) == ScanValue(s)

(***************************************************************************)
(* json.dumps and the string literal the encoded inputs are embedded in.   *)
(* Of the characters json.dumps escapes the model has the quote, the       *)
(* backslash and the newline, as json_loads above.                         *)
(***************************************************************************)
\* The characters json.dumps(s, ensure_ascii=False) writes between the quotes.
RECURSIVE dumps_chars(_)
dumps_chars(s) ==
    IF s = "" THEN ""
    ELSE (IF Head(s) \in {"\"", "\\"} THEN "\\" \o Head(s)
          ELSE IF Head(s) = "\n" THEN "\\n"
          ELSE Head(s)) \o dumps_chars(Tail(s))

\* The keys of a dict one after another. The order is that of insertion in the code;
\* the decoded value does not depend on it, and the model takes one.
RECURSIVE KeysInOrder(_)
KeysInOrder(K) ==
    IF K = {} THEN <<>>
    ELSE LET First(k) == <<k>> \o KeysInOrder(K \ {k}) IN First(CHOOSE k \in K : TRUE)

\* ", ".join(texts).
RECURSIVE JoinTexts(_)
JoinTexts(texts) ==
    IF texts = <<>> THEN ""
    ELSE IF Len(texts) = 1 THEN texts[1]
    ELSE texts[1] \o ", " \o JoinTexts(Tail(texts))

\* json.dumps(v, ensure_ascii=False).
RECURSIVE json_dumps(_)
json_dumps(v) ==
    LET Members(keys) ==
            JoinTexts([i \in DOMAIN keys |->
                     "\"" \o dumps_chars(keys[i]) \o "\": " \o json_dumps(v[2][keys[i]])])
    IN IF v[1] = "str" THEN "\"" \o dumps_chars(v[2]) \o "\""
       ELSE IF v[1] = "num" THEN ToString(v[2])
       ELSE IF v[1] = "float" THEN v[2]
       ELSE IF v[1] = "bool" THEN (IF v[2] THEN "true" ELSE "false")
       ELSE IF IsList(v) THEN "[" \o JoinTexts([i \in DOMAIN v[2] |-> json_dumps(v[2][i])]) \o "]"
       ELSE IF IsMap(v) THEN "{" \o Members(KeysInOrder(DOMAIN v[2])) \o "}"
       ELSE "null"

\* The value of the characters between ''' and ''' in Python source: a backslash
\* with a quote, a backslash or n after it is an escape; before any other character
\* it stays.
RECURSIVE py_unescape(_)
py_unescape(t) ==
    LET Escape(c) ==
            IF c \in {"\"", "\\", "'"} THEN c ELSE IF c = "n" THEN "\n" ELSE "\\" \o c
        At(at) ==
            IF at = 0 \/ at = Len(t) THEN t
            ELSE SubSeq(t, 1, at - 1) \o Escape(CharAt(t, at + 1)) \o py_unescape(From(t, at + 2))
    IN At(Find(t, "\\"))

\* The literal '''encoded''' of the prelude, evaluated: the text, or
\* Raise("SyntaxError") when encoded holds the closing quotes.
triple_quoted(encoded) ==
    IF Contains(encoded, "'''") THEN Raise("SyntaxError") ELSE Str(py_unescape(encoded))

\* The value json.loads gives to inputs in the first lines of the built code, or
\* what these lines raise in the sandbox.
embedded_inputs(value) ==
    LET Loaded(t) == IF IsRaise(t) THEN t ELSE json_loads(t[2])
    IN Loaded(triple_quoted(json_dumps(value)))

(***************************************************************************)
(* The argument normalizer and the argument decoder.                       *)
(***************************************************************************)
\* str.replace(old, new).
RECURSIVE Replace(_, _, _)
Replace(s, old, new) ==
    LET At(at) == IF at = 0 THEN s
                  ELSE SubSeq(s, 1, at - 1) \o new \o Replace(From(s, at + Len(old)), old, new)
    IN At(Find(s, old))

\* _normalize_key.
normalize_key(key) ==
    IF str_lower(Replace(key, "_", "")) = "userid" THEN "user_id" ELSE key

\* The members of a set in some order (a mapping of the model keeps no key order).
RECURSIVE SetToSeq(_)
SetToSeq(S) == IF S = {} THEN <<>> ELSE LET e == CHOOSE m \in S : TRUE IN <<e>> \o SetToSeq(S \ {e})

\* A fault: the digit test made on the value as given, the trimmed text returned.
RECURSIVE normalize_value_trimmed(_)
normalize_value_trimmed(value) ==
    IF IsMap(value)
    THEN Map([k2 \in {normalize_key(k) : k \in DOMAIN value[2]} |->
                normalize_value_trimmed(
                    value[2][CHOOSE k \in DOMAIN value[2] : normalize_key(k) = k2])])
    ELSE IF IsList(value)
    THEN List([i \in DOMAIN value[2] |-> normalize_value_trimmed(value[2][i])])
    ELSE IF IsStr(value)
    THEN IF IsDigit(value[2]) THEN Num(IntOf(value[2])) ELSE Str(Strip(value[2]))
    ELSE value

\* _normalize_value.
RECURSIVE normalize_value(_)
normalize_value(value) ==
    LET Renamed(key) ==
            Map([k2 \in {key[k] : k \in DOMAIN key} |->
                    normalize_value(value[2][CHOOSE k \in DOMAIN key : key[k] = k2])])
        Text(trimmed) ==
            IF IsDigit(trimmed) THEN Num(IntOf(trimmed))
            ELSE IF IsFloatText(trimmed) THEN Float(trimmed)
            ELSE value
    IN
    IF IsMap(value) THEN Renamed([k \in DOMAIN value[2] |-> normalize_key(k)])
    ELSE IF IsList(value)
    THEN List([i \in DOMAIN value[2] |-> normalize_value(value[2][i])])
    ELSE IF IsStr(value) THEN Text(Strip(value[2]))
    ELSE value

\* _normalize_params: params.items() raises AttributeError unless params is a mapping.
normalize_params(params) ==
    IF IsMap(params) THEN normalize_value(params) ELSE Raise("AttributeError")

\* The test of _parse_args on a decoded string: it looks like an object or an array.
LooksEncoded(t) ==
    (StartsWith(t, "{") /\ EndsWith(t, "}")) \/ (StartsWith(t, "[") /\ EndsWith(t, "]"))

\* _parse_args: the arguments as a mapping, or the exception raised.
parse_args(arguments) ==
    IF IsMap(arguments) THEN normalize_params(arguments)
    ELSE IF IsStr(arguments)
    THEN LET Mapping(again) ==
                 IF IsRaise(again) THEN Map(<<>>)
                 ELSE IF IsMap(again) THEN normalize_params(again)
                 ELSE Map(<<>>)
             Trimmed(parsed, trimmed) ==
                 Mapping(IF LooksEncoded(trimmed) THEN json_loads(trimmed) ELSE parsed)
             Parsed(parsed) ==
                 IF IsRaise(parsed) THEN parsed
                 ELSE IF IsStr(parsed) THEN Trimmed(parsed, Strip(parsed[2]))
                 ELSE Mapping(parsed)
         IN Parsed(json_loads(arguments[2]))
    ELSE Raise("ValueError")

(***************************************************************************)
(* The text strategies of _extract_tool_calls. A ToolCall is a record      *)
(* [name, arguments].                                                      *)
(***************************************************************************)
ToolCall(name, arguments) == [name |-> name, arguments |-> arguments]

\* The value of one key=value pair of a tool_code line.
tool_code_value(raw) ==
    LET Typed(value) ==
            IF IsDigit(value) THEN Num(IntOf(value))
            ELSE IF IsFloatText(value) THEN Float(Strip(value))
            ELSE Str(value)
    IN Typed(StripChars(StripChars(Strip(raw), {"\""}), {"'"}))

\* The loop over raw_args.split(","): a later pair replaces an earlier one of its key.
RECURSIVE tool_code_pairs(_, _)
tool_code_pairs(pairs, args) ==
    IF pairs = <<>> THEN args
    ELSE IF ~Contains(Head(pairs), "=") THEN tool_code_pairs(Tail(pairs), args)
    ELSE LET Pair(kv) ==
                 tool_code_pairs(Tail(pairs), (Strip(kv[1]) :> tool_code_value(kv[2])) @@ args)
         IN Pair(Split1(Head(pairs), "="))

\* _parse_tool_code_line: <<name, arguments>>, the name NoneVal when the line is no call.
parse_tool_code_line(line) ==
    IF ~Contains(line, "(") \/ ~EndsWith(line, ")")
    THEN <<NoneVal, Map(<<>>)>>
    ELSE LET Line(name, raw_args) ==
                 IF raw_args = ""
                 THEN <<Str(name), Map(<<>>)>>
                 ELSE <<Str(name), Map(tool_code_pairs(Split(raw_args, ","), <<>>))>>
             Halves(name, rest) == Line(Strip(name), Strip(SubSeq(rest, 1, Len(rest) - 1)))
             Parts(p) == Halves(p[1], p[2])
         IN Parts(Split1(line, "("))

\* The truth value Python gives a value (in "or" and "if").
IsTruthy(v) ==
    CASE v[1] = "none" -> FALSE
      [] v[1] = "str" -> v[2] # ""
      [] v[1] = "num" -> v[2] # 0
      [] v[1] = "float" -> \E i \in 1..Len(v[2]) : CharAt(v[2], i) \in (Digits \ {"0"})
      [] v[1] = "bool" -> v[2]
      [] v[1] = "map" -> DOMAIN v[2] # {}
      [] v[1] = "list" -> v[2] # <<>>
\* a or b.
PyOr(a, b) == IF IsTruthy(a) THEN a ELSE b

\* What a strategy returns: the calls it found; Raise(..) when it raised.
Found(calls) == <<"calls", calls>>
\* The name of a call: the text of a string, any other value as it is.
NameOf(v) == IF IsStr(v) THEN v[2] ELSE v

\* tool_calls.append(SimpleNamespace(name=name, arguments=self._normalize_params(params)))
\* under "if name:", added to the calls found so far.
plan_call(found, name, params) ==
    LET Add(arguments) ==
            IF IsRaise(arguments) THEN arguments
            ELSE Found(Append(found[2], ToolCall(NameOf(name), arguments)))
    IN IF ~IsTruthy(name) THEN found ELSE Add(normalize_params(params))

\* _parse_plan, lines 252-261: the items of a flat list.
RECURSIVE plan_items(_, _)
plan_items(items, found) ==
    IF IsRaise(found) \/ items = <<>> THEN found
    ELSE IF ~IsMap(Head(items)) THEN plan_items(Tail(items), found)
    ELSE plan_items(Tail(items),
             plan_call(found,
                 PyOr(Get(Head(items), "tool"), PyOr(Get(Head(items), "function"), Get(Head(items), "name"))),
                 PyOr(Get(Head(items), "parameters"), PyOr(Get(Head(items), "params"), Map(<<>>)))))

\* _parse_plan, lines 268-284: the entries of the actions.
RECURSIVE plan_actions(_, _)
plan_actions(actions, found) ==
    IF IsRaise(found) \/ actions = <<>> THEN found
    ELSE IF ~IsMap(Head(actions)) THEN plan_actions(Tail(actions), found)
    ELSE IF Get(Head(actions), "action") = Str("execute_in_sandbox")
    THEN plan_actions(Tail(actions),
             plan_call(found, Str("execute_in_sandbox"), Map("task" :> Get(Head(actions), "task"))))
    ELSE plan_actions(Tail(actions),
             plan_call(found,
                 PyOr(Get(Head(actions), "function"),
                      PyOr(Get(Head(actions), "function_name"), Get(Head(actions), "name"))),
                 PyOr(Get(Head(actions), "parameters"),
                      PyOr(Get(Head(actions), "params"),
                           PyOr(Get(Head(actions), "arguments"), Map(<<>>))))))

\* "for action in actions": the items of a list; a string gives its characters and a
\* mapping its keys, none of them a mapping; any other value raises TypeError.
Iterate(actions) ==
    IF IsList(actions) THEN Found(actions[2])
    ELSE IF IsStr(actions) \/ IsMap(actions) THEN Found(<<>>)
    ELSE Raise("TypeError")

\* _parse_plan.
parse_plan(raw) ==
    LET Entries(entries) ==
            IF IsRaise(entries) THEN entries ELSE plan_actions(entries[2], Found(<<>>))
        Steps(actions) ==
            IF ~IsMap(actions) THEN actions
            ELSE IF "steps" \in DOMAIN actions[2] THEN actions[2]["steps"] ELSE List(<<>>)
        Plan(data) ==
            IF IsRaise(data) \/ IsStr(data) THEN Found(<<>>)
            ELSE IF IsList(data) THEN plan_items(data[2], Found(<<>>))
            ELSE IF ~IsMap(data) THEN Found(<<>>)
            ELSE Entries(Iterate(Steps(
                     PyOr(Get(data, "actions"), PyOr(Get(data, "plan"), List(<<>>))))))
    IN Plan(json_loads(raw))

\* _parse_function_payload._add.
payload_add(name, arguments) ==
    LET Loaded(args) == IF IsRaise(args) THEN Map(<<>>) ELSE args
        Mapping(args) == IF IsMap(args) THEN args ELSE Map(<<>>)
        Add(args) ==
            IF IsTruthy(name) THEN <<ToolCall(NameOf(name), normalize_params(args))>> ELSE <<>>
    IN Add(Mapping(IF IsStr(arguments) THEN Loaded(json_loads(arguments[2])) ELSE arguments))

\* _parse_function_payload._visit, on one node and on a sequence of nodes. The values
\* of a mapping are visited in some order (the model keeps no key order).
RECURSIVE payload_visit(_)
RECURSIVE payload_visit_all(_)
RECURSIVE payload_tool_calls(_)
payload_tool_calls(calls) ==
    IF calls = <<>> THEN <<>>
    ELSE (IF ~IsMap(Head(calls)) THEN <<>>
          ELSE LET Call(function) ==
                       IF IsMap(function)
                       THEN payload_add(Get(function, "name"), Get(function, "arguments"))
                       ELSE payload_add(Get(Head(calls), "name"), Get(Head(calls), "arguments"))
               IN Call(PyOr(Get(Head(calls), "function"), Map(<<>>))))
         \o payload_tool_calls(Tail(calls))
payload_visit_all(nodes) ==
    IF nodes = <<>> THEN <<>> ELSE payload_visit(Head(nodes)) \o payload_visit_all(Tail(nodes))
payload_visit(node) ==
    IF IsList(node) THEN payload_visit_all(node[2])
    ELSE IF ~IsMap(node) THEN <<>>
    ELSE IF "tool_calls" \in DOMAIN node[2] /\ IsList(node[2]["tool_calls"])
    THEN payload_tool_calls(node[2]["tool_calls"][2])
    ELSE IF "function_call" \in DOMAIN node[2] /\ IsMap(node[2]["function_call"])
    THEN payload_add(Get(node[2]["function_call"], "name"), Get(node[2]["function_call"], "arguments"))
    ELSE IF "function" \in DOMAIN node[2] /\ IsMap(node[2]["function"])
    THEN payload_add(Get(node[2]["function"], "name"), Get(node[2]["function"], "arguments"))
    ELSE IF "name" \in DOMAIN node[2] /\ "arguments" \in DOMAIN node[2]
    THEN payload_add(Get(node, "name"), Get(node, "arguments"))
    ELSE payload_visit_all([i \in 1..Cardinality(DOMAIN node[2]) |->
                               node[2][SetToSeq(DOMAIN node[2])[i]]])

\* _parse_function_payload.
parse_function_payload(p) == payload_visit(p)

\* _extract_json_payloads: every value raw_decode reads at a "{" of the text.
RECURSIVE extract_json_payloads(_)
extract_json_payloads(content) ==
    LET Decoded(rest, r) ==
            IF ~IsOk(r) THEN extract_json_payloads(Tail(rest))
            ELSE <<r[2]>> \o extract_json_payloads(r[3])
        Brace(rest) == Decoded(rest, raw_decode(rest))
        At(at) == IF at = 0 THEN <<>> ELSE Brace(From(content, at))
    IN At(Find(content, "{"))

(***************************************************************************)
(* The fences. The three backquotes that open and close a fenced block are *)
(* written ~~~ in the texts of the model. The patterns are compiled with   *)
(* re.DOTALL and re.IGNORECASE.                                            *)
(***************************************************************************)
FENCE == "~~~"

\* _TOOL_CODE_PATTERN.findall(content): fence, "tool_code", \s*, (.+?), fence.
RECURSIVE tool_code_blocks(_)
tool_code_blocks(content) ==
    LET Closed(i, after, body, k) ==
            IF k # 0
            THEN <<SubSeq(body, 1, k)>> \o tool_code_blocks(From(body, k + 1 + Len(FENCE)))
            ELSE IF StartsWith(body, FENCE) /\ Len(body) < Len(after)
            THEN <<SubSeq(after, Len(after) - Len(body), Len(after) - Len(body))>>
                     \o tool_code_blocks(From(body, Len(FENCE) + 1))
            ELSE tool_code_blocks(From(content, i + 1))
        Body(i, after, body) ==
            Closed(i, after, body, IF body = "" THEN 0 ELSE Find(Tail(body), FENCE))
        Opened(i, after) == Body(i, after, SkipWs(after))
        Open(i) == IF i = 0 THEN <<>> ELSE Opened(i, From(content, i + Len(FENCE) + 9))
    IN Open(Find(str_lower(content), FENCE \o "tool_code"))

\* The end of the group (\{.+?\}) or (\[.+?\]) at the start of q that \s* and the
\* closing fence follow: the least such position, 0 when there is none.
GroupEnd(q, close) ==
    LET ends == {e \in 3..Len(q) :
                    CharAt(q, e) = close /\ StartsWith(SkipWs(From(q, e + 1)), FENCE)}
    IN IF ends = {} THEN 0 ELSE CHOOSE e \in ends : \A f \in ends : e <= f

\* findall of fence, "json", \s*, a group opened by one of opens, \s*, fence.
RECURSIVE json_fence_groups(_, _)
json_fence_groups(content, opens) ==
    LET Group(i, q, e) ==
            IF e # 0
            THEN <<SubSeq(q, 1, e)>>
                     \o json_fence_groups(From(SkipWs(From(q, e + 1)), Len(FENCE) + 1), opens)
            ELSE json_fence_groups(From(content, i + 1), opens)
        Opened(i, q) ==
            Group(i, q, IF q # "" /\ Head(q) \in opens
                        THEN GroupEnd(q, IF Head(q) = "{" THEN "}" ELSE "]")
                        ELSE 0)
        Open(i) == IF i = 0 THEN <<>> ELSE Opened(i, SkipWs(From(content, i + Len(FENCE) + 4)))
    IN Open(Find(str_lower(content), FENCE \o "json"))

\* _ACTIONS_JSON_PATTERN.findall and _JSON_FENCE_PATTERN.findall.
actions_json_matches(content) == json_fence_groups(content, {"{"})
json_fence_matches(content) == json_fence_groups(content, {"{", "["})

\* a.extend(b) where either may have raised.
Extend(a, b) == IF IsRaise(a) THEN a ELSE IF IsRaise(b) THEN b ELSE Found(a[2] \o b[2])

\* Lines 220-224: the calls of the lines of one tool_code block.
RECURSIVE tool_code_lines(_)
tool_code_lines(lines) ==
    LET Call(parsed) ==
            IF IsTruthy(parsed[1]) THEN <<ToolCall(parsed[1][2], parsed[2])>> ELSE <<>>
        Line(line) == IF line # "" THEN Call(parse_tool_code_line(line)) ELSE <<>>
    IN IF lines = <<>> THEN <<>>
       ELSE Line(Strip(Head(lines))) \o tool_code_lines(Tail(lines))

\* Lines 215-224: the loop over the tool_code blocks.
RECURSIVE from_tool_code(_)
from_tool_code(blocks) ==
    LET Block(stripped) ==
            IF StartsWith(stripped, "[")
            THEN parse_plan(stripped)
            ELSE Found(tool_code_lines(Split(Head(blocks), "\n")))
    IN IF blocks = <<>> THEN Found(<<>>)
       ELSE Extend(Block(Strip(Head(blocks))), from_tool_code(Tail(blocks)))

\* Lines 226-230: _parse_plan over the matches of a pattern.
RECURSIVE from_plans(_)
from_plans(matches) ==
    IF matches = <<>> THEN Found(<<>>)
    ELSE Extend(parse_plan(Head(matches)), from_plans(Tail(matches)))

\* Lines 232-233: _parse_function_payload over the payloads.
RECURSIVE from_payloads(_)
from_payloads(payloads) ==
    IF payloads = <<>> THEN <<>>
    ELSE parse_function_payload(Head(payloads)) \o from_payloads(Tail(payloads))

\* Lines 235-237: the whole message as a plan.
from_whole_message(content) ==
    LET Whole(content_stripped) ==
            IF StartsWith(content_stripped, "{") /\ EndsWith(content_stripped, "}")
            THEN parse_plan(content_stripped)
            ELSE Found(<<>>)
    IN Whole(Strip(content))

\* _extract_tool_calls: Found(calls), or the exception raised.
extract_tool_calls(content) ==
    Extend(from_tool_code(tool_code_blocks(content)),
    Extend(from_plans(actions_json_matches(content)),
    Extend(from_plans(json_fence_matches(content)),
    Extend(Found(from_payloads(extract_json_payloads(content))),
           from_whole_message(content)))))

(***************************************************************************)
(* _sanitize_text: for each sensitive key, re.sub of key\s*:\s*\S+ (with    *)
(* re.IGNORECASE) by "key: ***". The keys are a Python set, so the order   *)
(* of the substitutions is the order the set happens to iterate in.        *)
(***************************************************************************)
\* The longest prefix of s without whitespace.
RECURSIVE NonWsPrefix(_)
NonWsPrefix(s) ==
    IF s # "" /\ Head(s) \notin Whitespace THEN Head(s) \o NonWsPrefix(Tail(s)) ELSE ""

\* The length of the match of key\s*:\s*\S+ at the start of text; 0 when there is none.
RedactMatchLen(text, key) ==
    LET Value(c) ==
            IF StartsWith(str_lower(text), key) /\ c # ""
            THEN Len(text) - Len(c) + Len(NonWsPrefix(c))
            ELSE 0
        Colon(b) == Value(IF b # "" /\ Head(b) = ":" THEN SkipWs(Tail(b)) ELSE "")
    IN Colon(SkipWs(From(text, Len(key) + 1)))

\* re.sub for one key.
RECURSIVE redact_key(_, _)
redact_key(text, key) ==
    LET Match(n) ==
            IF n # 0
            THEN key \o ": ***" \o redact_key(From(text, n + 1), key)
            ELSE Head(text) \o redact_key(Tail(text), key)
    IN IF text = "" THEN "" ELSE Match(RedactMatchLen(text, key))

\* The orders a set of the sensitive keys may iterate in.
KeyOrders ==
    {q \in [1..Cardinality(SENSITIVE_KEYS) -> SENSITIVE_KEYS] :
        \A i, k \in DOMAIN q : i # k => q[i] # q[k]}

\* _sanitize_text, the keys taken in the given order.
RECURSIVE sanitize_text(_, _)
sanitize_text(text, order) ==
    IF order = <<>> THEN text ELSE sanitize_text(redact_key(text, Head(order)), Tail(order))

\* response.content or "": the content of a response is a string or None.
ContentText(content) == IF IsStr(content) THEN content[2] ELSE ""

\* A fault: the calls found in the text added to the structured ones.
select_tool_calls_merged(resp) ==
    [calls |-> Extend(Found(resp.tool_calls), extract_tool_calls(ContentText(resp.content))),
     extracted |-> TRUE]

\* Line 87: response.tool_calls or self._extract_tool_calls(response.content or "").
\* extracted tells whether the text strategies ran.
select_tool_calls(resp) ==
    IF resp.tool_calls # <<>>
    THEN [calls |-> Found(resp.tool_calls), extracted |-> FALSE]
    ELSE [calls |-> extract_tool_calls(ContentText(resp.content)), extracted |-> TRUE]

ToolResult(name, result) == Map(("tool" :> Str(name)) @@ ("result" :> result))

InitSession ==
    [pc |-> "start", tool_calls |-> <<>>, i |-> 1, results |-> <<>>,
     sanitizer_ran |-> <<>>, registry_log |-> <<>>, tools_used |-> <<>>,
     code |-> NoCode, run_code_log |-> <<>>, completions |-> 0,
     prompt2 |-> NotRun, reply |-> NotRun, error |-> "none",
     response |-> NotRun, extractor_ran |-> FALSE, dispatched |-> <<>>, http |-> NotRun,
     images |-> <<>>]

Fail(s, why) == [s EXCEPT !.pc = "raised", !.error = why]

(***************************************************************************)
(* Images in the output of the sandbox and in the final text.              *)
(***************************************************************************)
\* The characters of [A-Za-z0-9+/=].
Base64Chars ==
    DOMAIN UpperToLower \cup {UpperToLower[c] : c \in DOMAIN UpperToLower} \cup Digits
        \cup {"+", "/", "="}

\* The length of the longest prefix of s made of the characters of C.
RECURSIVE PrefixLen(_, _)
PrefixLen(s, C) == IF s # "" /\ Head(s) \in C THEN 1 + PrefixLen(Tail(s), C) ELSE 0

\* IMAGE_BASE64:(?P<b64>...) at the start of s: <<length of the match, b64>>, or
\* <<0, "">> when there is none.
Base64Match(s) ==
    LET Run(n) ==
            IF StartsWith(str_lower(s), "image_base64:") /\ n > 0
            THEN <<13 + n, SubSeq(s, 14, 13 + n)>> ELSE <<0, "">>
    IN Run(PrefixLen(From(s, 14), Base64Chars))

\* _IMAGE_PATTERN at the start of s: [len, mime, b64], len = 0 when there is no
\* match. The optional IMAGE_MIME group is tried first, \S+ from its longest.
ImageMatch(s) ==
    LET Plain(b) == [len |-> b[1], mime |-> "image/png", b64 |-> b[2]]
        Typed(after, n, rest, b) ==
            [len |-> Len(s) - Len(rest) + b[1], mime |-> SubSeq(after, 1, n), b64 |-> b[2]]
        Rest(after, n, rest) == Typed(after, n, rest, Base64Match(rest))
        Longest(after, n) == Rest(after, n, SkipWs(From(after, n + 1)))
        Fits(after, fits) ==
            IF fits = {} THEN Plain(Base64Match(s))
            ELSE Longest(after, CHOOSE m \in fits : \A k \in fits : k <= m)
        Mime(after, most) ==
            Fits(after, {n \in 1..most : Base64Match(SkipWs(From(after, n + 1)))[1] > 0})
        Prefixed(after) ==
            Mime(after, PrefixLen(after, {CharAt(after, i) : i \in 1..Len(after)} \ Whitespace))
    IN Prefixed(IF StartsWith(str_lower(s), "image_mime:") THEN From(s, 12) ELSE "")

\* _IMAGE_START_PATTERN at the start of s.
ImageStartMatch(s) ==
    LET Run(n) ==
            IF /\ StartsWith(str_lower(s), "image_start:")
               /\ n > 0
               /\ StartsWith(str_lower(From(s, 13 + n)), ":image_end")
            THEN [len |-> 12 + n + 10, mime |-> "image/png", b64 |-> SubSeq(s, 13, 12 + n)]
            ELSE [len |-> 0, mime |-> "image/png", b64 |-> ""]
    IN Run(PrefixLen(From(s, 13), Base64Chars))

\* The match of the pattern named by which at the start of s.
PatternMatch(which, s) == IF which = "image" THEN ImageMatch(s) ELSE ImageStartMatch(s)

\* The first position of text where the pattern matches, 0 when there is none.
FirstMatch(text, which) ==
    LET Least(hits) == IF hits = {} THEN 0 ELSE CHOOSE i \in hits : \A k \in hits : i <= k
    IN Least({i \in 1..Len(text) : PatternMatch(which, From(text, i)).len > 0})

\* _append_image: what one match adds to images under the mode.
append_image(mode, b64, mime) ==
    IF mode \in {"omit", "none"} THEN <<>>
    ELSE IF mode \in {"hash", "short"}
    THEN <<Map(("mime" :> Str(mime)) @@ ("sha256" :> <<"sha256", b64>>))>>
    ELSE <<Map(("mime" :> Str(mime)) @@ ("base64" :> Str(b64))
               @@ ("data_url" :> Str("data:" \o mime \o ";base64," \o b64)))>>

\* Values of IMAGE_RETURN_MODE; unset, the code takes "base64".
ImageReturnModes == {"base64", " Hash ", "short", "omit", "none"}

\* pattern.sub(replace, text) for the pattern named by which: the images appended
\* and the text with every match replaced.
RECURSIVE image_sub(_, _, _)
image_sub(text, which, mode) ==
    LET Replaced(i, m, more) ==
            [images |-> append_image(mode, m.b64, m.mime) \o more.images,
             cleaned |-> SubSeq(text, 1, i - 1) \o "[image omitted]" \o more.cleaned]
        Matched(i, m) == Replaced(i, m, image_sub(From(text, i + m.len), which, mode))
        At(i) ==
            IF i = 0 THEN [images |-> <<>>, cleaned |-> text]
            ELSE Matched(i, PatternMatch(which, From(text, i)))
    IN At(FirstMatch(text, which))

\* _extract_images_from_stdout; setting is the value of IMAGE_RETURN_MODE.
extract_images_from_stdout(stdout, setting) ==
    LET Both(first, second) ==
            [images |-> first.images \o second.images, cleaned |-> second.cleaned]
        Started(mode, first) == Both(first, image_sub(first.cleaned, "image_start", mode))
        Mode(mode) == Started(mode, image_sub(stdout, "image", mode))
    IN IF stdout = "" THEN [images |-> <<>>, cleaned |-> stdout]
       ELSE Mode(str_lower(Strip(setting)))

\* Lines 140-145 (and 176-179 for the final text): the images added to the reply
\* and the text that is kept, the cleaned one only "if extracted_images".
keep_cleaned(stdout, setting) ==
    LET Kept(e) ==
            Map(("images" :> List(e.images))
                @@ ("stdout" :> Str(IF e.images # <<>> THEN e.cleaned ELSE stdout)))
    IN Kept(extract_images_from_stdout(stdout, setting))

(***************************************************************************)
(* The packages of a sandbox call.                                         *)
(***************************************************************************)
\* _PLOT_KEYWORDS_PATTERN, case-insensitive. Its three Hangul words (graph,
\* visualization, chart) are written romanized in the texts of the model.
PLOT_KEYWORDS == {"geuraepeu", "sigakhwa", "chateu", "plot", "chart"}
AUTO_PACKAGE_ALLOWLIST ==
    {"numpy", "pandas", "matplotlib", "seaborn", "scipy", "statsmodels", "sklearn", "plotly"}

\* _needs_plot_packages: text is a Str or None.
needs_plot_packages(text) ==
    \E k \in PLOT_KEYWORDS : Contains(str_lower(ContentText(text)), k)

\* The characters of [a-zA-Z0-9_\.].
ModuleChars ==
    DOMAIN UpperToLower \cup {UpperToLower[c] : c \in DOMAIN UpperToLower} \cup Digits
        \cup {"_", "."}

\* _IMPORT_PATTERN at a line start of s: \s*, from or import, \s+, the module.
ImportMatch(s) ==
    LET Module(b, c, n) ==
            IF Len(c) < Len(b) /\ n > 0
            THEN [len |-> Len(s) - Len(c) + n, module |-> SubSeq(c, 1, n)]
            ELSE [len |-> 0, module |-> ""]
        Space(b, c) == Module(b, c, PrefixLen(c, ModuleChars))
        Keyword(b) == Space(b, SkipWs(b))
        Line(a) == Keyword(IF StartsWith(a, "from") THEN From(a, 5)
                           ELSE IF StartsWith(a, "import") THEN From(a, 7) ELSE "")
    IN Line(SkipWs(s))

\* _IMPORT_PATTERN.findall(code) from position p on: ^ matches at the start of the
\* text and after every newline (re.MULTILINE).
RECURSIVE import_findall(_, _)
import_findall(code, p) ==
    LET Matched(i, m) == <<m.module>> \o import_findall(code, i + m.len)
        At(i) == Matched(i, ImportMatch(From(code, i)))
        Starts(starts) ==
            IF starts = {} THEN <<>> ELSE At(CHOOSE k \in starts : \A m \in starts : k <= m)
    IN Starts({i \in p..Len(code) :
                  /\ i = 1 \/ CharAt(code, i - 1) = "\n"
                  /\ ImportMatch(From(code, i)).len > 0})

\* A fault: the comparison made on the names as written.
RECURSIVE ensure_packages_case_sensitive(_, _)
ensure_packages_case_sensitive(packages, required) ==
    IF required = <<>> THEN packages
    ELSE ensure_packages_case_sensitive(
             IF \E i \in DOMAIN packages : packages[i] = Head(required)
             THEN packages ELSE Append(packages, Head(required)),
             Tail(required))

\* _ensure_packages.
RECURSIVE ensure_packages(_, _)
ensure_packages(packages, required) ==
    IF required = <<>> THEN packages
    ELSE ensure_packages(
             IF \E i \in DOMAIN packages : str_lower(packages[i]) = str_lower(Head(required))
             THEN packages ELSE Append(packages, Head(required)),
             Tail(required))

\* Lines 478-481: the allowlisted top-level modules of the matches.
RECURSIVE import_candidates(_)
import_candidates(matches) ==
    IF matches = <<>> THEN <<>>
    ELSE LET Candidate(module) ==
                 IF module \in AUTO_PACKAGE_ALLOWLIST THEN <<module>> ELSE <<>>
         IN Candidate(str_lower(Strip(Split(Head(matches), ".")[1])))
                \o import_candidates(Tail(matches))

\* Lines 484-491: the candidates in order, each once.
RECURSIVE ordered_once(_)
ordered_once(items) ==
    IF items = <<>> THEN <<>>
    ELSE LET Once(before, last) ==
                 IF \E i \in DOMAIN before : before[i] = last THEN before
                 ELSE Append(before, last)
         IN Once(ordered_once(SubSeq(items, 1, Len(items) - 1)), items[Len(items)])

\* _infer_packages_from_code.
infer_packages_from_code(code) ==
    IF code = "" THEN <<>> ELSE ordered_once(import_candidates(import_findall(code, 1)))

\* The text _build_sandbox_code returns (lines 416-444), with encoded the JSON text
\* of the inputs: code is a Str or None.
prelude_text(encoded) ==
    "import json\nimport matplotlib\nmatplotlib.use('Agg')\nimport matplotlib.pyplot as plt\n"
        \o "inputs = json.loads('''" \o encoded \o "''')\n"
postlude_text ==
    "\n\ntry:\n    import io\n    import base64\n    import matplotlib.pyplot as plt\n"
        \o "    if plt.get_fignums():\n        buf = io.BytesIO()\n"
        \o "        plt.tight_layout()\n        plt.savefig(buf, format='png')\n"
        \o "        buf.seek(0)\n"
        \o "        img_base64 = base64.b64encode(buf.read()).decode('utf-8')\n"
        \o "        print(f\"IMAGE_START:{img_base64}:IMAGE_END\")\n"
        \o "except Exception as e:\n    print(f\"GRAPH_ERROR:{e}\")\n"
\* A fault: the supplied code alone, without prelude and postlude.
supplied_text(code, encoded) == IF IsStr(code) THEN code[2] ELSE ""

built_text(code, encoded) ==
    IF IsStr(code) /\ code[2] # ""
    THEN prelude_text(encoded) \o "\n" \o code[2]
            \o (IF Contains(code[2], "IMAGE_BASE64") \/ Contains(code[2], "IMAGE_START")
                THEN "" ELSE postlude_text)
    ELSE prelude_text(encoded) \o "\nprint(json.dumps(inputs, ensure_ascii=False))"

\* _BLOCKED_CODE_PATTERN over a text: the alternatives without \s+, in lower case, and
\* the two words of those with \s+ between them.
BLOCKED_LITERALS ==
    {"subprocess", "socket", "requests", "shutil", "os.system", "__import__", "open(",
     "eval(", "exec("}
BLOCKED_SPACED == {<<"import", "os">>, <<"import", "sys">>, <<"rm", "-rf">>}

\* first\s+second matches somewhere in text.
RECURSIVE SpacedMatch(_, _, _)
SpacedMatch(text, first, second) ==
    LET After(rest) ==
            /\ rest # ""
            /\ Head(rest) \in Whitespace
            /\ StartsWith(LStrip(rest, Whitespace), second)
        At(at) ==
            IF at = 0 THEN FALSE
            ELSE After(From(text, at + Len(first)))
                    \/ SpacedMatch(From(text, at + 1), first, second)
    IN At(Find(text, first))

\* _BLOCKED_CODE_PATTERN.search(text) is not None.
blocked_search(text) ==
    LET Folded(t) ==
            \/ \E p \in BLOCKED_LITERALS : Contains(t, p)
            \/ \E w \in BLOCKED_SPACED : SpacedMatch(t, w[1], w[2])
    IN Folded(str_lower(text))

\* _validate_code on the text of _build_sandbox_code: TRUE when it raises ValueError.
validate_built(code, task, inputs, results) ==
    blocked_search(built_text(code, json_dumps(build_sandbox_code(code, task, inputs, results).payload)))

\* Lines 126-131: the packages handed to run_code; explicit is
\* args.get("required_packages", []) or [], content the user's message.
required_packages(explicit, code, content) ==
    LET Plot(merged) ==
            IF needs_plot_packages(content) THEN ensure_packages(merged, <<"matplotlib">>)
            ELSE merged
        Inferred(inferred) ==
            Plot(IF inferred # <<>> THEN ensure_packages(explicit, inferred) ELSE explicit)
    IN Inferred(infer_packages_from_code(code))

\* A fault: the content given back as it came.
fallback_raw(content, order) == ContentText(content)

\* Line 90: fallback_text = self._sanitize_text(response.content or "").
fallback(content, order) == sanitize_text(ContentText(content), order)

\* Lines 77-109: the first completion, and what follows from its response.
\* resp is Raise(..) or <<"resp", [tool_calls, content]>>.
first_completion(s, resp, order) ==
    IF IsRaise(resp)
    THEN [Fail(s, "completion") EXCEPT !.completions = @ + 1]
    ELSE LET Answer(t, fallback_text) ==
                 IF fallback_text # ""
                 THEN [t EXCEPT !.pc = "returned",
                                !.reply = [text |-> fallback_text, tools_used |-> <<>>,
                                           images |-> <<>>]]
                 ELSE Fail(t, "no_tool_calls")
             Selected(sel, t) ==
                 IF IsRaise(sel.calls) THEN Fail(t, "extraction")
                 ELSE IF sel.calls[2] # <<>>
                 THEN [t EXCEPT !.pc = "loop", !.tool_calls = sel.calls[2]]
                 ELSE Answer(t, fallback(resp[2].content, order))
             Response(sel) ==
                 Selected(sel, [s EXCEPT !.completions = @ + 1, !.response = resp,
                                         !.extractor_ran = sel.extracted])
         IN Response(select_tool_calls(resp[2]))

CurrentCall(s) == s.tool_calls[s.i]
InLoop(s) == s.pc = "loop" /\ s.i <= Len(s.tool_calls)
IsSandboxCall(call) == call.name = "execute_in_sandbox"
\* Line 113: args = self._parse_args(call.arguments).
Args(s) == parse_args(CurrentCall(s).arguments)
\* The call and its decoded arguments, as it is dispatched.
Dispatch(s, args) == ToolCall(CurrentCall(s).name, args)

\* A fault: the registry's result stored as returned.
registry_dispatch_raw(s, r) ==
    LET Stored(t) ==
            IF IsRaise(r) THEN Fail(t, "registry")
            ELSE [t EXCEPT !.results = Append(@, ToolResult(CurrentCall(s).name, r)),
                           !.sanitizer_ran = Append(@, FALSE),
                           !.registry_log = Append(@, r),
                           !.tools_used = Append(@, CurrentCall(s).name),
                           !.i = @ + 1]
        Executed(args) ==
            IF IsRaise(args) THEN Fail(s, "arguments")
            ELSE Stored([s EXCEPT !.dispatched = Append(@, Dispatch(s, args))])
    IN Executed(Args(s))

\* Lines 150-153: registry.execute returned r (or raised).
registry_dispatch(s, r) ==
    LET Stored(t) ==
            IF IsRaise(r) THEN Fail(t, "registry")
            ELSE [t EXCEPT !.results =
                               Append(@, ToolResult(CurrentCall(s).name, sanitize_payload(r))),
                           !.sanitizer_ran = Append(@, TRUE),
                           !.registry_log = Append(@, r),
                           !.tools_used = Append(@, CurrentCall(s).name),
                           !.i = @ + 1]
        Executed(args) ==
            IF IsRaise(args) THEN Fail(s, "arguments")
            ELSE Stored([s EXCEPT !.dispatched = Append(@, Dispatch(s, args))])
    IN Executed(Args(s))

\* Lines 115-120: the code built for the current sandbox call.
BuiltCode(s, args) ==
    build_sandbox_code(Get(args, "code"), Get(args, "task"), Get(args, "inputs"), s.results)

\* Lines 115-137: build, validate, and the call of sandbox_client.run_code.
sandbox_prepare(s) ==
    LET Validated(t, code) ==
            IF validate_code(code)
            THEN [Fail(t, "validation") EXCEPT !.code = code]
            ELSE [t EXCEPT !.pc = "run_code", !.code = code,
                           !.run_code_log = Append(@, code)]
        Prepared(args) ==
            IF IsRaise(args) THEN Fail(s, "arguments")
            ELSE Validated([s EXCEPT !.dispatched = Append(@, Dispatch(s, args))],
                           BuiltCode(s, args))
    IN Prepared(Args(s))

\* A fault: the result of a sandbox call appended, its name left out of tools_used.
sandbox_finish_unlisted(s, o, setting) ==
    IF IsRaise(o)
    THEN Fail(s, "sandbox")
    ELSE [s EXCEPT !.pc = "loop",
                   !.results = Append(@, ToolResult(CurrentCall(s).name, o)),
                   !.sanitizer_ran = Append(@, FALSE),
                   !.i = @ + 1]

\* sandbox_result.get("stdout", "").
StdoutOf(o) == IF "stdout" \in DOMAIN o[2] THEN o[2]["stdout"][2] ELSE ""

\* Lines 143-145: sandbox_result["stdout"] = cleaned_stdout under "if extracted_images";
\* kept is what keep_cleaned returned for the stdout of o.
WithStdout(o, kept) ==
    IF kept[2]["images"][2] # <<>>
    THEN Map(("stdout" :> kept[2]["stdout"]) @@ o[2])
    ELSE o

\* Lines 134-148: run_code returned o (or raised); the images of its stdout are added
\* to images and the result is appended. setting is the value of IMAGE_RETURN_MODE.
sandbox_finish(s, o, setting) ==
    LET Stored(kept) ==
            [s EXCEPT !.pc = "loop",
                      !.images = @ \o kept[2]["images"][2],
                      !.results = Append(@, ToolResult(CurrentCall(s).name, WithStdout(o, kept))),
                      !.sanitizer_ran = Append(@, FALSE),
                      !.tools_used = Append(@, CurrentCall(s).name),
                      !.i = @ + 1]
    IN IF IsRaise(o) THEN Fail(s, "sandbox") ELSE Stored(keep_cleaned(StdoutOf(o), setting))

\* A fault: a response with what was gathered so far sent in place of the error.
generate_partial(s) ==
    <<"http", 200, Map(("text" :> Str("")) @@ ("model" :> Str("model"))
                       @@ ("tools_used" :> List([i \in DOMAIN s.tools_used |-> Str(s.tools_used[i])]))
                       @@ ("images" :> List(<<>>)))>>

\* generate, lines 53-57: an exception of handle_user_request becomes
\* HTTPException(500); its return value becomes the GenerateResponse, built at
\* line 57 from text, model and tools_used: images takes the default of the schema
\* (schema.py line 61), the empty list.
generate(s) ==
    IF s.pc = "raised"
    THEN <<"http", 500, Map("detail" :> Str(s.error))>>
    ELSE <<"http", 200, Map(("text" :> Str(s.reply.text)) @@ ("model" :> Str("model"))
                            @@ ("tools_used" :> List([i \in DOMAIN s.reply.tools_used |->
                                                         Str(s.reply.tools_used[i])]))
                            @@ ("images" :> List(<<>>)))>>

\* Lines 155-187: the second completion; resp is Raise(..) or the content of the
\* final response, which is sanitized and searched for images before it is returned.
final_completion(s, resp, order, setting) ==
    LET Returned(kept) ==
            [s EXCEPT !.pc = "returned", !.completions = @ + 1,
                      !.prompt2 = List(s.results),
                      !.images = @ \o kept[2]["images"][2],
                      !.reply = [text |-> kept[2]["stdout"][2], tools_used |-> s.tools_used,
                                 images |-> s.images \o kept[2]["images"][2]]]
    IN IF IsRaise(resp)
       THEN [Fail(s, "completion") EXCEPT !.completions = @ + 1,
                                          !.prompt2 = List(s.results)]
       ELSE Returned(keep_cleaned(sanitize_text(ContentText(resp), order), setting))

(***************************************************************************)
(* What the collaborators may answer.                                      *)
(***************************************************************************)
RegistryCall == [name |-> "get_user_profile", arguments |-> Map("userId" :> Str("13"))]
SandboxCall(args) == [name |-> "execute_in_sandbox", arguments |-> Map(args)]
Calls ==
    {RegistryCall,
     SandboxCall("code" :> Str("print(1)")),
     SandboxCall("code" :> Str("EVAL(")),
     SandboxCall("task" :> Str("summarize")),
     SandboxCall(("code" :> Str("print(1)")) @@ ("inputs" :> Map("password" :> Str("hunter2")))),
     \* arguments that are JSON text: a list where a mapping is due, and a text cut short
     [name |-> "execute_in_sandbox", arguments |-> Str("[13]")],
     [name |-> "get_user_profile", arguments |-> Str("{\"user_id\": 13")]}
\* What the first completion may say in its content.
Contents ==
    {NoneVal, Str(""), Str("hello"), Str("my PASSWORD : hunter2 is safe"),
     Str("~~~tool_code\nget_user_profile(user_id=13)\n~~~"), Str("{\"actions\": 5}")}
CallLists == UNION {[1..n -> Calls] : n \in 1..MaxCalls}
Responses ==
    {Raise("RuntimeError")}
        \cup {<<"resp", [tool_calls |-> cs, content |-> NoneVal]>> : cs \in CallLists}
        \cup {<<"resp", [tool_calls |-> <<>>, content |-> c]>> : c \in Contents}
        \cup {<<"resp", [tool_calls |-> <<RegistryCall, c>>,
                         content |-> Str("~~~tool_code\nget_user_profile(user_id=13)\n~~~")]>> :
                 c \in {RegistryCall}}

\* What registry.execute may return for one user under different stored secrets.
Profile(secret) ==
    Map(("name" :> Str("alice")) @@ ("password" :> secret)
        @@ ("cards" :> List(<<Map(("card_number" :> secret) @@ ("brand" :> Str("visa")))>>)))
Secrets == {Str("hunter2"), Str("subprocess")}
RegistryResults == {Raise("DomainError"), List(<<>>)} \cup {Profile(x) : x \in Secrets}

(***************************************************************************)
(* The request's steps.                                                    *)
(***************************************************************************)
JobOf(r) == <<r, sess[r].i>>

\* The first completion answers one of responses.
FirstCompletionOf(r, responses) ==
    /\ sess[r].pc = "start"
    /\ \E resp \in responses, order \in KeyOrders :
          sess' = [sess EXCEPT ![r] = first_completion(@, resp, order)]
    /\ UNCHANGED <<sanVars, sbVars>>

FirstCompletion(r) == FirstCompletionOf(r, Responses)

RegistryDispatch(r) ==
    /\ InLoop(sess[r])
    /\ ~IsSandboxCall(CurrentCall(sess[r]))
    /\ \E res \in RegistryResults : sess' = [sess EXCEPT ![r] = registry_dispatch(@, res)]
    /\ UNCHANGED <<sanVars, sbVars>>

SandboxPrepare(r) ==
    /\ InLoop(sess[r])
    /\ IsSandboxCall(CurrentCall(sess[r]))
    /\ sess' = [sess EXCEPT ![r] = sandbox_prepare(@)]
    /\ jobs' = IF sess'[r].pc = "run_code"
               THEN [jobs EXCEPT ![JobOf(r)] = [@ EXCEPT !.pc = "run_code",
                                                         !.code = sess'[r].code]]
               ELSE jobs
    /\ UNCHANGED <<sanVars, cfg, containers, uuids>>

\* The outputs of the jobs and the answers of the second completion hold no image
\* marker and no sensitive key here, so that every value of IMAGE_RETURN_MODE and
\* every order of the keys give the same result: one of each stands for all.
\* SpecReply draws texts with markers and keys, and all modes and orders.
PlainSetting == "base64"
PlainOrder == CHOOSE order \in KeyOrders : TRUE

SandboxFinish(r) ==
    /\ sess[r].pc = "run_code"
    /\ jobs[JobOf(r)].pc = "done"
    /\ sess' = [sess EXCEPT ![r] = sandbox_finish(@, jobs[JobOf(r)].outcome, PlainSetting)]
    /\ UNCHANGED <<sanVars, sbVars>>

\* The second completion answers one of answers.
FinalCompletionOf(r, answers, orders, settings) ==
    /\ sess[r].pc = "loop"
    /\ sess[r].i > Len(sess[r].tool_calls)
    /\ \E resp \in answers, order \in orders, setting \in settings :
          sess' = [sess EXCEPT ![r] = final_completion(@, resp, order, setting)]
    /\ UNCHANGED <<sanVars, sbVars>>

FinalCompletion(r) ==
    FinalCompletionOf(r, {Raise("RuntimeError"), Str("answer")}, {PlainOrder}, {PlainSetting})

\* generate answers the caller once handle_user_request has returned or raised.
Generate(r) ==
    /\ sess[r].pc \in {"returned", "raised"}
    /\ sess[r].http = NotRun
    /\ sess' = [sess EXCEPT ![r].http = generate(sess[r])]
    /\ UNCHANGED <<sanVars, sbVars>>

(***************************************************************************)
(* Specifications.                                                         *)
(***************************************************************************)
InitSanitize ==
    /\ payload \in Payloads(MaxDepth)
    /\ sanitized = NotRun
    /\ input = NoneVal
    /\ output = NotRun
    /\ cfg = CHOOSE c \in Configs : c.exec_container /\ ~c.ssh_host
    /\ jobs = <<>>
    /\ containers = InitContainers
    /\ uuids = 0
    /\ sess = <<>>

NextSanitize == ApplySanitize

SpecSanitize == InitSanitize /\ [][NextSanitize]_vars

InitSandbox ==
    /\ payload = NoneVal
    /\ sanitized = NotRun
    /\ input = NoneVal
    /\ output = NotRun
    /\ cfg \in Configs
    /\ jobs = [j \in 1..NJobs |-> IdleJob]
    /\ containers = InitContainers
    /\ uuids = 0
    /\ sess = <<>>

NextSandbox ==
    \/ \E j \in DOMAIN jobs : Submit(j)
    \/ \E j \in DOMAIN jobs : ClientRunCode(j)
    \/ \E j \in DOMAIN jobs : RunViaExec(j)
    \/ \E j \in DOMAIN jobs : ExecFinish(j)
    \/ \E j \in DOMAIN jobs : RunViaSshExec(j)
    \/ \E j \in DOMAIN jobs : SshFinish(j)
    \/ \E j \in DOMAIN jobs : ServerRun(j)
    \/ \E j \in DOMAIN jobs : RunLocalLaunch(j)
    \/ \E j \in DOMAIN jobs : RunLocalWait(j)
    \/ \E j \in DOMAIN jobs : RunLocalLogs(j)
    \/ \E j \in DOMAIN jobs : RunLocalFinally(j)
    \/ \E j \in DOMAIN jobs : RunRemote(j)
    \/ \E j \in DOMAIN jobs : RemoteConnect(j)
    \/ \E j \in DOMAIN jobs : RemoteFinish(j)
    \/ \E j \in DOMAIN jobs : RemoteExcept(j)
    \/ \E j \in DOMAIN jobs : ServerReturn(j)
    \/ \E c \in DOMAIN containers : DaemonAutoRemove(c)

SpecSandbox == InitSandbox /\ [][NextSandbox]_vars

Requests == {1}

Init ==
    /\ payload = NoneVal
    /\ sanitized = NotRun
    /\ input = NoneVal
    /\ output = NotRun
    /\ cfg \in Configs
    /\ jobs = [j \in Requests \X (1..MaxCalls) |-> IdleJob]
    /\ containers = InitContainers
    /\ uuids = 0
    /\ sess = [r \in Requests |-> InitSession]

Next ==
    \/ \E r \in Requests : FirstCompletion(r)
    \/ \E r \in Requests : RegistryDispatch(r)
    \/ \E r \in Requests : SandboxPrepare(r)
    \/ \E r \in Requests : SandboxFinish(r)
    \/ \E r \in Requests : FinalCompletion(r)
    \/ \E r \in Requests : Generate(r)
    \/ \E j \in DOMAIN jobs : ClientRunCode(j)
    \/ \E j \in DOMAIN jobs : RunViaExec(j)
    \/ \E j \in DOMAIN jobs : ExecFinish(j)
    \/ \E j \in DOMAIN jobs : RunViaSshExec(j)
    \/ \E j \in DOMAIN jobs : SshFinish(j)
    \/ \E j \in DOMAIN jobs : ServerRun(j)
    \/ \E j \in DOMAIN jobs : RunLocalLaunch(j)
    \/ \E j \in DOMAIN jobs : RunLocalWait(j)
    \/ \E j \in DOMAIN jobs : RunLocalLogs(j)
    \/ \E j \in DOMAIN jobs : RunLocalFinally(j)
    \/ \E j \in DOMAIN jobs : RunRemote(j)
    \/ \E j \in DOMAIN jobs : RemoteConnect(j)
    \/ \E j \in DOMAIN jobs : RemoteFinish(j)
    \/ \E j \in DOMAIN jobs : RemoteExcept(j)
    \/ \E j \in DOMAIN jobs : ServerReturn(j)
    \/ \E c \in DOMAIN containers : DaemonAutoRemove(c)

Spec == Init /\ [][Next]_vars

(***************************************************************************)
(* Two runs of one request that differ only in the values the registry     *)
(* holds under sensitive keys, stepped together. The sandbox and the LLM   *)
(* answer the same to the same input.                                      *)
(***************************************************************************)
RECURSIVE WithSecret(_, _)
WithSecret(p, x) ==
    IF IsMap(p)
    THEN Map([k \in DOMAIN p[2] |->
                 IF k \in SENSITIVE_KEYS THEN x ELSE WithSecret(p[2][k], x)])
    ELSE IF IsList(p)
    THEN List([i \in DOMAIN p[2] |-> WithSecret(p[2][i], x)])
    ELSE p

\* What SandboxClient.run_code may answer.
RunCodeOutcomes ==
    {ExecResult(0), ExecResult(1), SshResult(1), LocalResult(0), RemoteResult,
     Raise("HTTPError"), Raise("RuntimeError")}

Both(P(_)) == P(sess[1]) /\ P(sess[2])
AtStart(s) == s.pc = "start"
AtRegistryCall(s) == InLoop(s) /\ ~IsSandboxCall(CurrentCall(s))
AtSandboxCall(s) == InLoop(s) /\ IsSandboxCall(CurrentCall(s))
AtRunCode(s) == s.pc = "run_code"
AtFinal(s) == s.pc = "loop" /\ s.i > Len(s.tool_calls)

PairFirstCompletion ==
    /\ Both(AtStart)
    /\ \E resp \in Responses, order \in KeyOrders :
          sess' = [r \in {1, 2} |-> first_completion(sess[r], resp, order)]
    /\ UNCHANGED <<sanVars, sbVars>>

PairRegistryDispatch ==
    /\ Both(AtRegistryCall)
    /\ \E res \in RegistryResults, x \in Secrets :
          sess' = [r \in {1, 2} |->
                      registry_dispatch(sess[r],
                          IF r = 1 \/ IsRaise(res) THEN res ELSE WithSecret(res, x))]
    /\ UNCHANGED <<sanVars, sbVars>>

PairSandboxPrepare ==
    /\ Both(AtSandboxCall)
    /\ sess' = [r \in {1, 2} |-> sandbox_prepare(sess[r])]
    /\ UNCHANGED <<sanVars, sbVars>>

PairSandboxFinish ==
    /\ Both(AtRunCode)
    /\ \E o1 \in RunCodeOutcomes, o2 \in RunCodeOutcomes :
          /\ sess[1].code = sess[2].code => o1 = o2
          /\ sess' = [r \in {1, 2} |->
                         sandbox_finish(sess[r], IF r = 1 THEN o1 ELSE o2, PlainSetting)]
    /\ UNCHANGED <<sanVars, sbVars>>

PairFinalCompletion ==
    /\ Both(AtFinal)
    /\ \E a1 \in {Raise("RuntimeError"), Str("answer")},
          a2 \in {Raise("RuntimeError"), Str("answer")} :
          /\ sess[1].results = sess[2].results => a1 = a2
          /\ sess' = [r \in {1, 2} |->
                         final_completion(sess[r], IF r = 1 THEN a1 ELSE a2,
                                          PlainOrder, PlainSetting)]
    /\ UNCHANGED <<sanVars, sbVars>>

InitPair ==
    /\ payload = NoneVal
    /\ sanitized = NotRun
    /\ input = NoneVal
    /\ output = NotRun
    /\ cfg = CHOOSE c \in Configs : c.exec_container /\ ~c.ssh_host
    /\ jobs = <<>>
    /\ containers = InitContainers
    /\ uuids = 0
    /\ sess = [r \in {1, 2} |-> InitSession]

NextPair ==
    \/ PairFirstCompletion
    \/ PairRegistryDispatch
    \/ PairSandboxPrepare
    \/ PairSandboxFinish
    \/ PairFinalCompletion

SpecPair == InitPair /\ [][NextPair]_vars

(***************************************************************************)
(* One function applied to one input: the input is drawn at the start, the *)
(* action applies the function and keeps what it returned.                 *)
(***************************************************************************)
HarnessRest ==
    /\ payload = NoneVal
    /\ sanitized = NotRun
    /\ output = NotRun
    /\ cfg = CHOOSE c \in Configs : c.exec_container /\ ~c.ssh_host
    /\ jobs = <<>>
    /\ containers = InitContainers
    /\ uuids = 0
    /\ sess = <<>>

\* Lines of a tool_code block, each with the call it stands for: the name, and per
\* key the value read as an integer, a float, or the text without its quotes.
ToolCodeLineSet ==
    {[text |-> "get_rentals(user_id=13, days=7)",
      call |-> ToolCall("get_rentals", Map(("user_id" :> Num(13)) @@ ("days" :> Num(7))))],
     [text |-> "get_user_profile(user_id=13)",
      call |-> ToolCall("get_user_profile", Map("user_id" :> Num(13)))],
     [text |-> "search(query=\"bikes, helmets\")",
      call |-> ToolCall("search", Map("query" :> Str("bikes, helmets")))],
     [text |-> "set_rate(rate=1.5, city='seoul')",
      call |-> ToolCall("set_rate", Map(("rate" :> Float("1.5")) @@ ("city" :> Str("seoul"))))],
     [text |-> "ping()", call |-> ToolCall("ping", Map(<<>>))]}

\* Function entries of a plan's actions list, each with the call it stands for.
PlanEntrySet ==
    {[text |-> "{\"function\":\"get_user_profile\",\"parameters\":{\"user_id\":13}}",
      call |-> ToolCall("get_user_profile", Map("user_id" :> Num(13)))],
     [text |-> "{\"function\":\"get_rentals\",\"parameters\":{\"user_id\":13,\"days\":7}}",
      call |-> ToolCall("get_rentals", Map(("user_id" :> Num(13)) @@ ("days" :> Num(7))))],
     [text |-> "{\"function\":\"execute_in_sandbox\",\"parameters\":{\"task\":\"plot\"}}",
      call |-> ToolCall("execute_in_sandbox", Map("task" :> Str("plot")))]}

MaxLines == 2
MaxEntries == 2

\* What the first completion may write: one tool_code block, or one plan, in a json
\* fence or as the whole message.
ExtractInputs ==
    {[kind |-> "tool_code", fenced |-> TRUE, parts |-> ls] :
        ls \in UNION {[1..n -> ToolCodeLineSet] : n \in 1..MaxLines}}
    \cup {[kind |-> "plan", fenced |-> f, parts |-> es] :
            f \in BOOLEAN, es \in UNION {[1..n -> PlanEntrySet] : n \in 1..MaxEntries}}

RECURSIVE Join(_, _)
Join(parts, sep) ==
    IF parts = <<>> THEN ""
    ELSE IF Len(parts) = 1 THEN parts[1].text
    ELSE parts[1].text \o sep \o Join(Tail(parts), sep)

\* The text of the message.
MessageText(in) ==
    IF in.kind = "tool_code"
    THEN FENCE \o "tool_code\n" \o Join(in.parts, "\n") \o "\n" \o FENCE
    ELSE LET plan == "{\"actions\":[" \o Join(in.parts, ",") \o "]}"
         IN IF in.fenced THEN FENCE \o "json\n" \o plan \o "\n" \o FENCE ELSE plan

\* The calls the parts of the message stand for, in their order.
CallsOf(in) == Found([i \in DOMAIN in.parts |-> in.parts[i].call])

InitExtract == input \in ExtractInputs /\ HarnessRest

ApplyExtract ==
    /\ output = NotRun
    /\ output' = extract_tool_calls(MessageText(input))
    /\ UNCHANGED <<payload, sanitized, input, sbVars, orchVars>>

NextExtract == ApplyExtract

SpecExtract == InitExtract /\ [][NextExtract]_vars

\* Argument mappings: nested mappings, sequences, strings and numbers, with the
\* spellings of the user id key and strings that read as numbers.
NormLeaves ==
    {Num(13), Float("1.5"), Str("13"), Str(" 7 "), Str("-2.50"), Str(" seoul ")}
NormKeys == {"userId", "user_id", "days"}
RECURSIVE NormValues(_)
NormValues(d) ==
    IF d = 0 THEN NormLeaves
    ELSE NormValues(d - 1)
            \cup {List(<<v>>) : v \in NormValues(d - 1)}
            \cup {Map(k :> v) : k \in NormKeys, v \in NormValues(d - 1)}
            \cup {Map(("userId" :> v) @@ ("USER_ID" :> w)) : v, w \in NormLeaves}
\* The values of p that are neither mappings nor sequences.
RECURSIVE Leaves(_)
Leaves(p) ==
    IF IsMap(p) THEN UNION {Leaves(p[2][k]) : k \in DOMAIN p[2]}
    ELSE IF IsList(p) THEN UNION {Leaves(p[2][i]) : i \in DOMAIN p[2]}
    ELSE {p}
NormalizeInputs == {v \in NormValues(MaxDepth) : IsMap(v)}

InitNormalize == input \in NormalizeInputs /\ HarnessRest

\* output is the list of what _normalize_params returned, call after call.
ApplyNormalize ==
    /\ output = NotRun
    /\ output' = List(<<normalize_params(input)>>)
    /\ UNCHANGED <<payload, sanitized, input, sbVars, orchVars>>

ApplyNormalizeAgain ==
    /\ IsList(output)
    /\ Len(output[2]) = 1
    /\ output' = List(Append(output[2], normalize_params(output[2][1])))
    /\ UNCHANGED <<payload, sanitized, input, sbVars, orchVars>>

NextNormalize == ApplyNormalize \/ ApplyNormalizeAgain

SpecNormalize == InitNormalize /\ [][NextNormalize]_vars

\* What the sandbox may print: image markers of the three spellings of the patterns,
\* and other text.
StdoutPieces ==
    {[text |-> "IMAGE_START:iVBORw0KGgo=:IMAGE_END", marker |-> TRUE],
     [text |-> "IMAGE_BASE64:QUJD+/8=", marker |-> TRUE],
     [text |-> "IMAGE_MIME:image/jpeg image_base64:eA==", marker |-> TRUE],
     [text |-> "plot done", marker |-> FALSE],
     [text |-> "", marker |-> FALSE]}
MaxPieces == 2
ImageInputs ==
    {[parts |-> ps, setting |-> m] :
        ps \in UNION {[1..n -> StdoutPieces] : n \in 1..MaxPieces}, m \in ImageReturnModes}

\* The number of markers among the parts.
RECURSIVE Markers(_)
Markers(parts) ==
    IF parts = <<>> THEN 0
    ELSE (IF Head(parts).marker THEN 1 ELSE 0) + Markers(Tail(parts))

\* A marker is left in text.
HasMarker(text) == FirstMatch(text, "image") # 0 \/ FirstMatch(text, "image_start") # 0

InitImages == input \in ImageInputs /\ HarnessRest

ApplyImages ==
    /\ output = NotRun
    /\ output' = keep_cleaned(Join(input.parts, "\n"), input.setting)
    /\ UNCHANGED <<payload, sanitized, input, sbVars, orchVars>>

NextImages == ApplyImages

SpecImages == InitImages /\ [][NextImages]_vars

\* User messages with a visualization keyword, and without.
PlotMessages ==
    {Str("sigakhwa haejwo"), Str("Plot my rentals"), Str("show a CHART of usage")}
OtherMessages == {Str("hello"), NoneVal}
\* Package names a call may ask for, and the code it may carry.
PackageNames == {"pandas", "Matplotlib", "matplotlib", "NumPy"}
MaxPackages == 2
SandboxCodes ==
    {NoneVal, Str("print(1)"),
     Str("import numpy as np\nfrom scipy.stats import norm\nplt.plot([1])")}
PackageInputs ==
    {[content |-> m, explicit |-> ps, code |-> c] :
        m \in PlotMessages \cup OtherMessages,
        ps \in UNION {[1..n -> PackageNames] : n \in 0..MaxPackages},
        c \in SandboxCodes}

InitPackages == input \in PackageInputs /\ HarnessRest

\* output is the list of package names handed to run_code.
ApplyPackages ==
    /\ output = NotRun
    /\ output' = List(required_packages(input.explicit, built_text(input.code, "{}"),
                                        input.content))
    /\ UNCHANGED <<payload, sanitized, input, sbVars, orchVars>>

NextPackages == ApplyPackages

SpecPackages == InitPackages /\ [][NextPackages]_vars

(***************************************************************************)
(* Two requests handled at once by the one Orchestrator of the process     *)
(* (main.py line 29), each in its own call of handle_user_request, their   *)
(* steps interleaved in any order. Each request asks for code of its own,  *)
(* the first one after a registry call.                                    *)
(* The deployments are those without a remote host: the long-lived         *)
(* container, the sandbox server, and neither.                             *)
(***************************************************************************)
ConcurrentRequests == {1, 2}
ConcurrentCode(r) == Str(IF r = 1 THEN "print(1)" ELSE "print(2)")
ConcurrentResponses(r) ==
    {<<"resp", [tool_calls |-> IF r = 1
                               THEN <<RegistryCall, SandboxCall("code" :> ConcurrentCode(r))>>
                               ELSE <<SandboxCall("code" :> ConcurrentCode(r))>>,
                content |-> NoneVal]>>}

InitConcurrent ==
    /\ payload = NoneVal
    /\ sanitized = NotRun
    /\ input = NoneVal
    /\ output = NotRun
    /\ cfg \in {c \in Configs : ~c.ssh_host /\ ~c.remote_host}
    /\ jobs = [j \in ConcurrentRequests \X (1..MaxCalls) |-> IdleJob]
    /\ containers = InitContainers
    /\ uuids = 0
    /\ sess = [r \in ConcurrentRequests |-> InitSession]

NextConcurrent ==
    \/ \E r \in ConcurrentRequests : FirstCompletionOf(r, ConcurrentResponses(r))
    \/ \E r \in ConcurrentRequests : RegistryDispatch(r)
    \/ \E r \in ConcurrentRequests : SandboxPrepare(r)
    \/ \E r \in ConcurrentRequests : SandboxFinish(r)
    \/ \E r \in ConcurrentRequests : FinalCompletion(r)
    \/ \E r \in ConcurrentRequests : Generate(r)
    \/ \E j \in DOMAIN jobs : ClientRunCode(j)
    \/ \E j \in DOMAIN jobs : RunViaExec(j)
    \/ \E j \in DOMAIN jobs : ExecFinish(j)
    \/ \E j \in DOMAIN jobs : ServerRun(j)
    \/ \E j \in DOMAIN jobs : RunLocalLaunch(j)
    \/ \E j \in DOMAIN jobs : RunLocalWait(j)
    \/ \E j \in DOMAIN jobs : RunLocalLogs(j)
    \/ \E j \in DOMAIN jobs : RunLocalFinally(j)
    \/ \E j \in DOMAIN jobs : ServerReturn(j)
    \/ \E c \in DOMAIN containers : DaemonAutoRemove(c)

SpecConcurrent == InitConcurrent /\ [][NextConcurrent]_vars

(***************************************************************************)
(* One request whose sandbox runs print newlines and image markers and     *)
(* whose final text holds markers and sensitive keys. IMAGE_RETURN_MODE    *)
(* and the order the set of sensitive keys iterates in are those of the    *)
(* process, drawn at the start. run_code is answered at once.              *)
(***************************************************************************)
ReplyResponses ==
    {<<"resp", [tool_calls |-> cs, content |-> NoneVal]>> :
        cs \in {<<SandboxCall("code" :> Str("print(1)")), SandboxCall("task" :> Str("summarize"))>>,
                <<RegistryCall, SandboxCall("code" :> Str("print(1)"))>>,
                <<SandboxCall(("code" :> Str("print(1)")) @@ ("inputs" :> Map("n" :> Num(1))))>>}}
ReplyStdouts ==
    {"1\n", "plot done", "IMAGE_START:iVBORw0KGgo=:IMAGE_END",
     "IMAGE_BASE64:QUJD+/8=\nIMAGE_START:eA==:IMAGE_END\n"}
ReplyOutcomes ==
    {Raise("HTTPError")}
        \cup {Map(("exit_code" :> Num(0)) @@ ("stdout" :> Str(t))) : t \in ReplyStdouts}
ReplyAnswers ==
    {Raise("RuntimeError"), Str("answer"), Str("chart: IMAGE_BASE64:QUJD+/8="),
     Str("password: hunter2")}

ReplySandboxPrepare ==
    /\ InLoop(sess[1])
    /\ IsSandboxCall(CurrentCall(sess[1]))
    /\ sess' = [sess EXCEPT ![1] = sandbox_prepare(@)]
    /\ UNCHANGED <<sanVars, sbVars>>

ReplySandboxFinish ==
    /\ sess[1].pc = "run_code"
    /\ \E o \in ReplyOutcomes : sess' = [sess EXCEPT ![1] = sandbox_finish(@, o, input.setting)]
    /\ UNCHANGED <<sanVars, sbVars>>

InitReply ==
    /\ payload = NoneVal
    /\ sanitized = NotRun
    /\ input \in [setting : ImageReturnModes, order : KeyOrders]
    /\ output = NotRun
    /\ cfg = CHOOSE c \in Configs : c.exec_container /\ ~c.ssh_host
    /\ jobs = <<>>
    /\ containers = InitContainers
    /\ uuids = 0
    /\ sess = [r \in {1} |-> InitSession]

NextReply ==
    \/ FirstCompletionOf(1, ReplyResponses)
    \/ RegistryDispatch(1)
    \/ ReplySandboxPrepare
    \/ ReplySandboxFinish
    \/ FinalCompletionOf(1, ReplyAnswers, {input.order}, {input.setting})
    \/ Generate(1)

SpecReply == InitReply /\ [][NextReply]_vars

(***************************************************************************)
(* _extract_tool_calls applied to plans whose fields hold a value of       *)
(* another type than a list of entries or a mapping of parameters.         *)
(***************************************************************************)
OddParameters == {"5", "\"x\"", "[1]", "null", "{\"a\":1}"}
OddPlanValues ==
    {"5", "\"x\"", "null", "[5]", "{\"function\":\"ping\"}"}
        \cup {"[{\"function\":\"ping\",\"" \o k \o "\":" \o p \o "}]" :
                 k \in {"parameters", "params"}, p \in OddParameters}
OddPlanTexts == {"{\"" \o f \o "\":" \o v \o "}" : f \in {"actions", "plan"}, v \in OddPlanValues}
\* The plan as the whole message, in a json fence, or after other text.
PlanWraps == {"whole", "fenced", "after_text"}
OddPlanInputs == [text : OddPlanTexts, wrap : PlanWraps]
OddPlanMessage(in) ==
    IF in.wrap = "fenced" THEN FENCE \o "json\n" \o in.text \o "\n" \o FENCE
    ELSE IF in.wrap = "after_text" THEN "Here is the plan: " \o in.text
    ELSE in.text

InitOddPlan == input \in OddPlanInputs /\ HarnessRest

ApplyOddPlan ==
    /\ output = NotRun
    /\ output' = extract_tool_calls(OddPlanMessage(input))
    /\ UNCHANGED <<payload, sanitized, input, sbVars, orchVars>>

NextOddPlan == ApplyOddPlan

SpecOddPlan == InitOddPlan /\ [][NextOddPlan]_vars

(***************************************************************************)
(* _build_sandbox_code and _validate_code applied to one sandbox call: its *)
(* code, task and inputs, and the results gathered before it.              *)
(***************************************************************************)
\* Texts a result, a task or an input may hold: without a blocked pattern, with one,
\* with one in capitals and spaces, and with a line break where the pattern has \s+.
DataTexts == {"ok", "subprocess", "Import  OS", "import\nos"}
ValidateCodes == {NoneVal, Str("print(1)"), Str("EVAL(")}
ValidateTasks == {NoneVal} \cup {Str(t) : t \in DataTexts}
ValidateInputs == {NoneVal, Map(<<>>)} \cup {Map("note" :> Str(t)) : t \in DataTexts}
ValidateResults ==
    {<<>>} \cup {<<ToolResult("get_user_profile", Map("name" :> Str(t)))>> : t \in DataTexts}
ValidateCalls ==
    [code : ValidateCodes, task : ValidateTasks, inputs : ValidateInputs,
     results : ValidateResults]

InitValidate == input \in ValidateCalls /\ HarnessRest

\* output is whether _validate_code raised.
ApplyValidate ==
    /\ output = NotRun
    /\ output' = Bool(validate_built(input.code, input.task, input.inputs, input.results))
    /\ UNCHANGED <<payload, sanitized, input, sbVars, orchVars>>

NextValidate == ApplyValidate

SpecValidate == InitValidate /\ [][NextValidate]_vars

(***************************************************************************)
(* Properties.                                                             *)
(***************************************************************************)

\* C1: code that matches the blocklist is never handed to run_code: the log of
\* run_code calls and the jobs that left the orchestrator hold no matching code, and
\* a call whose built code matches ends the request with a validation error while
\* its job has not started (no container launch).
C1_BlockedCodeNeverRuns ==
    /\ \A r \in DOMAIN sess : \A k \in DOMAIN sess[r].run_code_log :
          ~BlockedPatternSearch(CodeText(sess[r].run_code_log[k]))
    /\ \A j \in DOMAIN jobs : jobs[j].pc # "idle" => ~BlockedPatternSearch(CodeText(jobs[j].code))
    /\ \A r \in DOMAIN sess :
          (sess[r].code.built /\ BlockedPatternSearch(CodeText(sess[r].code)))
              => /\ sess[r].pc = "raised"
                 /\ sess[r].error = "validation"
                 /\ jobs[JobOf(r)].pc = "idle"

\* A request aborted by the validator after an earlier sandbox call ran.
C1_Witness ==
    \E r \in DOMAIN sess :
        /\ sess[r].error = "validation"
        /\ BlockedPatternSearch(CodeText(sess[r].code))
        /\ Len(sess[r].run_code_log) = 1

\* C2: every ToolResult in the results list went through the payload sanitizer
\* before it was stored, on the registry path and on the sandbox path.
C2_EveryResultSanitized ==
    \A r \in DOMAIN sess : \A k \in DOMAIN sess[r].results : sess[r].sanitizer_ran[k]

\* C3: the output of _sanitize_payload has no sensitive key at any nesting depth.
C3_NoSensitiveKeyLeft ==
    sanitized # NotRun => KeysOf(sanitized) \cap SENSITIVE_KEYS = {}

\* The sanitizer ran on a value whose only sensitive keys are nested.
C3_Witness ==
    /\ sanitized # NotRun
    /\ 2 \in SensitiveDepths(payload)
    /\ 1 \notin SensitiveDepths(payload)
    /\ sanitized # payload

\* C4: two runs that differ only in the values under sensitive keys of the registry's
\* results have the same ToolResults, the same code (with its injected inputs) handed
\* to the sandbox and the same second prompt.
C4_SecretsDoNotInterfere ==
    /\ sess[1].pc = sess[2].pc
    /\ sess[1].results = sess[2].results
    /\ sess[1].code = sess[2].code
    /\ sess[1].run_code_log = sess[2].run_code_log
    /\ sess[1].prompt2 = sess[2].prompt2

\* Both runs returned; the registry answered differently and a later sandbox call
\* had the registry's result injected.
C4_Witness ==
    /\ sess[1].pc = "returned" /\ sess[2].pc = "returned"
    /\ sess[1].registry_log # sess[2].registry_log
    /\ \E k \in DOMAIN sess[1].run_code_log :
          "get_user_profile" \in ValueStrings(sess[1].run_code_log[k].payload)

\* An execution attempt of the manager has ended for job j.
MgrEnded(j) == jobs[j].path \in {"local", "remote"} /\ jobs[j].pc \in {"server_return", "done"}

ExecutionFailures == {"unreachable", "timeout", "nonzero", "remote"}

\* C7: a failed sandbox execution yields a structured outcome, not an exception, and
\* the request goes on to the second completion instead of ending with the failure.
C7_ExecutionFailureIsAResult ==
    /\ \A j \in DOMAIN jobs :
          (jobs[j].pc = "done" /\ jobs[j].failure \in ExecutionFailures)
              => IsStructured(jobs[j].outcome)
    /\ \A r \in DOMAIN sess : sess[r].error # "sandbox"

\* C8: a job is on a remote path only after the local runtime was tried and found
\* unreachable.
C8_RemoteOnlyAfterLocalFailed ==
    \A j \in DOMAIN jobs :
        jobs[j].path \in {"remote", "ssh"} => (jobs[j].local_tried /\ jobs[j].primary_down)

\* C9: when the primary runtime was unreachable and the remote fallback failed too,
\* the call returns a structured failure and raises nothing.
C9_DoubleFailureIsStructured ==
    \A j \in DOMAIN jobs :
        (jobs[j].pc = "done" /\ jobs[j].primary_down /\ jobs[j].remote_failed)
            => (IsStructured(jobs[j].outcome) /\ ExitCode(jobs[j].outcome) # 0)

\* The container job j executes or executed in.
RanIn(j) ==
    IF jobs[j].path \in {"exec", "ssh"} \/ jobs[j].created THEN jobs[j].cname ELSE NoContainer

\* C10: no two jobs execute in the same container, and each runs in a container
\* created for it (not the long-lived one).
C10_OneContainerPerJob ==
    \A j \in DOMAIN jobs :
        RanIn(j) # NoContainer =>
            /\ RanIn(j)[2] > 0
            /\ \A k \in DOMAIN jobs : k # j => RanIn(k) # RanIn(j)

\* C11: every execution of submitted code, on whichever path, is in a container
\* launched for it with the network disabled, a memory ceiling, a CPU ceiling and a
\* bounded wait.
C11_EveryExecutionIsConfined ==
    \A j \in DOMAIN jobs :
        jobs[j].executed =>
            /\ jobs[j].limits.fresh
            /\ jobs[j].limits.network_none
            /\ jobs[j].limits.mem_limit
            /\ jobs[j].limits.cpu_limit
            /\ jobs[j].limits.wait_timeout

\* C12: when the first completion carries structured tool calls, the text strategies
\* do not run and the calls processed are those calls, in their order, with the
\* arguments of a mapping only normalized.
C12_StructuredCallsUsedAsGiven ==
    \A r \in DOMAIN sess :
        (sess[r].response # NotRun /\ sess[r].response[2].tool_calls # <<>>) =>
            /\ ~sess[r].extractor_ran
            /\ sess[r].tool_calls = sess[r].response[2].tool_calls
            /\ Len(sess[r].dispatched) <= Len(sess[r].response[2].tool_calls)
            /\ sess[r].pc = "returned" =>
                  Len(sess[r].dispatched) = Len(sess[r].response[2].tool_calls)
            /\ \A k \in DOMAIN sess[r].dispatched :
                  /\ sess[r].dispatched[k].name = sess[r].response[2].tool_calls[k].name
                  /\ IsMap(sess[r].response[2].tool_calls[k].arguments) =>
                        sess[r].dispatched[k].arguments
                            = normalize_params(sess[r].response[2].tool_calls[k].arguments)

\* A request returned after two structured calls, of a response whose content held a
\* call in a tool_code block, and a normalized argument differs from the one given.
C12_Witness ==
    \E r \in DOMAIN sess :
        /\ sess[r].pc = "returned"
        /\ sess[r].response # NotRun
        /\ Len(sess[r].response[2].tool_calls) = 2
        /\ extract_tool_calls(ContentText(sess[r].response[2].content)) # Found(<<>>)
        /\ Len(sess[r].dispatched) = 2
        /\ \E k \in 1..2 :
              sess[r].dispatched[k].arguments # sess[r].response[2].tool_calls[k].arguments

\* C13: a tool_code block of n lines name(key=value, ...) yields exactly the n calls
\* of its lines, in line order, each value an integer when all digits, a float when
\* otherwise numeric, and else the text with its surrounding quotes stripped.
C13_ToolCodeLinesYieldTheirCalls ==
    (output # NotRun /\ input.kind = "tool_code") => output = CallsOf(input)

\* C14: a plan whose actions list has k function entries yields exactly the k calls
\* of its entries, in a json fence as well as when it is the whole message.
C14_PlanEntriesYieldTheirCalls ==
    (output # NotRun /\ input.kind = "plan") => output = CallsOf(input)

\* The first completion of s carried no structured calls and the text strategies
\* found none in its content.
NoCallsFound(s) ==
    /\ s.response # NotRun
    /\ s.response[2].tool_calls = <<>>
    /\ extract_tool_calls(ContentText(s.response[2].content)) = Found(<<>>)

\* C15: when no calls are found, exactly one completion was made and no tool was
\* dispatched; a non-empty content is returned sanitized with tools_used = [] and
\* images = [], and an empty content ends the request with an error and no reply.
C15_NoCallsAnswerOrError ==
    \A r \in DOMAIN sess :
        NoCallsFound(sess[r]) =>
            /\ sess[r].completions = 1
            /\ sess[r].dispatched = <<>>
            /\ sess[r].results = <<>>
            /\ sess[r].registry_log = <<>> /\ sess[r].run_code_log = <<>>
            /\ IF ContentText(sess[r].response[2].content) # ""
               THEN /\ sess[r].pc = "returned"
                    /\ sess[r].reply.text
                           \in {sanitize_text(ContentText(sess[r].response[2].content), q) :
                                   q \in KeyOrders}
                    /\ sess[r].reply.tools_used = <<>>
                    /\ sess[r].reply.images = <<>>
               ELSE /\ sess[r].pc = "raised"
                    /\ sess[r].error = "no_tool_calls"
                    /\ sess[r].reply = NotRun

\* A content with a secret in it was returned as the answer, redacted.
C15_Witness ==
    \E r \in DOMAIN sess :
        /\ NoCallsFound(sess[r])
        /\ sess[r].pc = "returned"
        /\ sess[r].reply.text # ContentText(sess[r].response[2].content)
        /\ sess[r].http # NotRun

\* An empty content ended the request.
C15_WitnessEmpty ==
    \E r \in DOMAIN sess :
        /\ NoCallsFound(sess[r])
        /\ sess[r].response[2].content = NoneVal
        /\ sess[r].error = "no_tool_calls"

\* The encoding of a call's arguments is well formed: a mapping, or a text that
\* decodes to a mapping, directly or as the text of a second encoding.
WellFormedArguments(arguments) ==
    \/ IsMap(arguments)
    \/ /\ IsStr(arguments)
       /\ \/ IsMap(json_loads(arguments[2]))
          \/ /\ IsStr(json_loads(arguments[2]))
             /\ IsMap(json_loads(Strip(json_loads(arguments[2])[2])))

\* C16: a call whose argument encoding is malformed aborts the request: no such call
\* is dispatched (with emptied arguments or otherwise), and none is passed over.
C16_MalformedArgumentsAbort ==
    \A r \in DOMAIN sess :
        /\ \A k \in DOMAIN sess[r].dispatched :
              WellFormedArguments(sess[r].tool_calls[k].arguments)
        /\ \A k \in DOMAIN sess[r].tool_calls :
              (k < sess[r].i /\ ~WellFormedArguments(sess[r].tool_calls[k].arguments))
                  => sess[r].pc = "raised"

\* The conditions that end a request.
FatalConditions ==
    {"completion", "extraction", "no_tool_calls", "arguments", "validation", "registry",
     "sandbox"}

\* C17: a request in which a fatal condition occurred has returned no reply (no
\* text, tools_used or images), and what its caller receives is the one error
\* response; a response with a body of text is sent only for a request that returned.
C17_FatalEndsInOneError ==
    \A r \in DOMAIN sess :
        /\ sess[r].error # "none" <=> sess[r].pc = "raised"
        /\ sess[r].pc = "raised" =>
              /\ sess[r].error \in FatalConditions
              /\ sess[r].reply = NotRun
              /\ sess[r].http # NotRun =>
                    /\ sess[r].http[2] = 500
                    /\ DOMAIN sess[r].http[3][2] = {"detail"}
        /\ (sess[r].http # NotRun /\ sess[r].http[2] = 200) => sess[r].pc = "returned"

\* The second call of a request had malformed arguments after the first call had
\* succeeded, and the caller received the error.
C17_Witness ==
    \E r \in DOMAIN sess :
        /\ sess[r].pc = "raised"
        /\ sess[r].error = "arguments"
        /\ Len(sess[r].results) = 1
        /\ sess[r].tools_used # <<>>
        /\ sess[r].http # NotRun

\* C18: _normalize_params is idempotent: normalizing what it returned yields the
\* same mapping, with the same keys, values and types.
C18_NormalizeIdempotent ==
    (IsList(output) /\ Len(output[2]) = 2) => output[2][2] = output[2][1]

\* A mapping was normalized twice, and the first call changed a key spelling and
\* turned a padded digit string, nested in it, into an integer.
C18_Witness ==
    /\ IsList(output) /\ Len(output[2]) = 2
    /\ output[2][1] # input
    /\ "userId" \in DOMAIN input[2]
    /\ "user_id" \in DOMAIN output[2][1][2]
    /\ Str(" 7 ") \in Leaves(input)
    /\ Num(7) \in Leaves(output[2][1])

\* C19: after a stdout (or final text) with image markers was processed, the text
\* that is kept holds no marker, in every image return mode, and in the modes that
\* emit images there is exactly one image per marker.
C19_NoMarkerLeft ==
    IsMap(output) =>
        /\ ~HasMarker(output[2]["stdout"][2])
        /\ str_lower(Strip(input.setting)) \notin {"omit", "none"} =>
              Len(output[2]["images"][2]) = Markers(input.parts)

\* C20: for a sandbox call of a request whose message has a visualization keyword,
\* the packages handed to run_code contain the plotting library, begin with the
\* explicitly requested packages in their order, and no added entry equals an
\* earlier one case-insensitively.
C20_PlotPackagesAdded ==
    (IsList(output) /\ input.content \in PlotMessages) =>
        /\ \E i \in DOMAIN output[2] : str_lower(output[2][i]) = "matplotlib"
        /\ Len(output[2]) >= Len(input.explicit)
        /\ SubSeq(output[2], 1, Len(input.explicit)) = input.explicit
        /\ \A i \in DOMAIN output[2] :
              i > Len(input.explicit) =>
                  \A k \in 1..(i - 1) : str_lower(output[2][k]) # str_lower(output[2][i])

\* The call asked for the plotting library under another spelling and for another
\* package, its code imports more, and packages were added.
C20_Witness ==
    /\ IsList(output)
    /\ input.content \in PlotMessages
    /\ input.explicit = <<"pandas", "Matplotlib">>
    /\ IsStr(input.code) /\ Contains(input.code[2], "import numpy")
    /\ output[2] = <<"pandas", "Matplotlib", "numpy", "scipy">>

\* C21: at every step of the tool loop results and tools_used have the same length,
\* the number of calls processed so far, and their k-th entries carry the name of the
\* k-th call; on a successful return tools_used is the sequence of the names of the
\* calls in call order, and every call was dispatched exactly once.
C21_ResultsFollowTheCalls ==
    \A r \in DOMAIN sess :
        /\ Len(sess[r].results) = Len(sess[r].tools_used)
        /\ Len(sess[r].results) = sess[r].i - 1
        /\ \A k \in DOMAIN sess[r].results :
              /\ sess[r].tools_used[k] = sess[r].tool_calls[k].name
              /\ sess[r].results[k][2]["tool"] = Str(sess[r].tool_calls[k].name)
        /\ sess[r].pc = "returned" =>
              /\ sess[r].reply.tools_used =
                     [k \in DOMAIN sess[r].tool_calls |-> sess[r].tool_calls[k].name]
              /\ Len(sess[r].dispatched) = Len(sess[r].tool_calls)
              /\ \A k \in DOMAIN sess[r].dispatched :
                    sess[r].dispatched[k].name = sess[r].tool_calls[k].name

\* A request returned after a registry call and a sandbox call, in either order.
C21_Witness ==
    \E r \in DOMAIN sess :
        /\ sess[r].pc = "returned"
        /\ Len(sess[r].reply.tools_used) = 2
        /\ \E k \in 1..2 : IsSandboxCall(sess[r].tool_calls[k])
        /\ \E k \in 1..2 : ~IsSandboxCall(sess[r].tool_calls[k])

\* The results, tools_used and images of request r hold what its own calls produced:
\* the k-th entries carry the name of its k-th call, the result of a sandbox call is
\* the outcome of the job started for it, the result of a registry call is the
\* sanitized return of a registry call of r, and the code handed to run_code is the
\* code r asked for.
OwnEntries(r) ==
    /\ Len(sess[r].tools_used) = Len(sess[r].results)
    /\ \A k \in DOMAIN sess[r].results :
          /\ sess[r].tools_used[k] = sess[r].tool_calls[k].name
          /\ sess[r].results[k][2]["tool"] = Str(sess[r].tool_calls[k].name)
          /\ IF IsSandboxCall(sess[r].tool_calls[k])
             THEN sess[r].results[k][2]["result"] = jobs[<<r, k>>].outcome
             ELSE \E n \in DOMAIN sess[r].registry_log :
                     sess[r].results[k][2]["result"] = sanitize_payload(sess[r].registry_log[n])
    /\ \A k \in DOMAIN sess[r].run_code_log : sess[r].run_code_log[k].body = ConcurrentCode(r)
    /\ sess[r].images = <<>>

\* No container has run code of two requests.
NoContainerOfTwoRequests ==
    \A j \in DOMAIN jobs, k \in DOMAIN jobs :
        (j[1] # k[1] /\ RanIn(j) # NoContainer) => RanIn(k) # RanIn(j)

\* C22: two requests handled at once by the shared Orchestrator, in any interleaving:
\* the results, tools_used and images of each hold only entries of its own calls, and
\* no step of one changes state the other reads.
C22_ConcurrentRequestsIndependent ==
    /\ \A r \in DOMAIN sess : OwnEntries(r)
    /\ NoContainerOfTwoRequests

\* The payload built for the current sandbox call when it names no inputs: the
\* results of the calls before it, in call order, and its task.
PriorResults(s) ==
    Map(("results" :> List([k \in 1..(s.i - 1) |-> s.results[k]]))
        @@ ("task" :> Get(Args(s), "task")))

\* A sandbox call without inputs has been built and handed to run_code.
RunsOnInjectedResults(s) ==
    /\ s.pc = "run_code"
    /\ Get(Args(s), "inputs") = NoneVal

\* C23: when the i-th call is a sandbox call without explicit inputs, the inputs its
\* code reads are exactly the results of calls 1..i-1 in call order and the task,
\* fixed before the call runs; no result of call i or of a later call is among them.
C23_InjectedInputsArePriorResults ==
    \A r \in DOMAIN sess :
        RunsOnInjectedResults(sess[r]) =>
            /\ Len(sess[r].results) = sess[r].i - 1
            /\ sess[r].code.payload = PriorResults(sess[r])
            /\ embedded_inputs(sess[r].code.payload) = PriorResults(sess[r])

\* C24: _extract_tool_calls is total: for every text, plans whose actions, plan,
\* parameters or params hold a number, a string or a list where a list of entries or
\* a mapping is due included, it returns a list of calls and raises nothing.
C24_ExtractToolCallsIsTotal ==
    output # NotRun => ~IsRaise(output) /\ output[1] = "calls"

\* C25: every image extracted during a request, from the output of the sandbox runs
\* in call order and then from the final text, is carried in that order in the images
\* list of the response the caller of generate receives.
C25_ResponseCarriesImages ==
    \A r \in DOMAIN sess :
        (sess[r].http # NotRun /\ sess[r].http[2] = 200) =>
            /\ sess[r].reply.images = sess[r].images
            /\ sess[r].http[3][2]["images"] = List(sess[r].images)

\* C27: the packages are inferred from the built code, whose prelude imports the
\* plotting library, so whatever the message, the supplied code and the requested
\* packages are, the list handed to run_code is not empty and holds matplotlib (under
\* that name, or under the spelling the call asked for it).
C27_PackagesHoldPlottingLibrary ==
    IsList(output) =>
        /\ output[2] # <<>>
        /\ \E i \in DOMAIN output[2] : str_lower(output[2][i]) = "matplotlib"
        /\ infer_packages_from_code(built_text(input.code, "{}"))[1] = "matplotlib"
        /\ ("matplotlib" \in {output[2][i] : i \in DOMAIN output[2]}
              \/ \E i \in DOMAIN input.explicit : str_lower(input.explicit[i]) = "matplotlib")

\* A call without requested packages, under a message without a visualization
\* keyword, whose code imports nothing: the list is the plotting library alone.
C27_Witness ==
    /\ IsList(output)
    /\ input.content \in OtherMessages
    /\ input.explicit = <<>>
    /\ input.code = Str("print(1)")
    /\ output[2] = <<"matplotlib">>

\* A blocked pattern occurs in a string of the value.
PatternIn(value) == \E s \in ValueStrings(value) : blocked_search(s)

\* The payload _build_sandbox_code encodes for the call.
InjectedPayload(in) == build_sandbox_code(in.code, in.task, in.inputs, in.results).payload

\* C26, as stated: the validator sees the whole built text, so a sandbox call is
\* rejected whenever a blocked pattern occurs in the injected prior results, in the
\* task or in the explicit inputs, also when the supplied code holds none.
C26_PatternInDataRejects ==
    output # NotRun =>
        ((\/ input.inputs = NoneVal /\ PatternIn(List(input.results))
          \/ PatternIn(input.task)
          \/ PatternIn(input.inputs))
            => output = Bool(TRUE))

\* C26, amended: a sandbox call is rejected whenever a blocked pattern occurs in the
\* JSON text of the payload that is injected (the explicit inputs, or without them
\* the prior results and the task), also when the supplied code holds none.
C26_PatternInEncodedPayloadRejects ==
    output # NotRun =>
        (blocked_search(json_dumps(InjectedPayload(input))) => output = Bool(TRUE))

\* A call whose code holds no blocked pattern, rejected for the pattern in a prior
\* result.
C26_Witness ==
    /\ output = Bool(TRUE)
    /\ input.code = Str("print(1)")
    /\ input.task = NoneVal
    /\ input.inputs = NoneVal
    /\ input.results = <<ToolResult("get_user_profile", Map("name" :> Str("subprocess")))>>
    /\ ~blocked_search(input.code[2])

====
